---------------------------- MODULE Spec2Model ----------------------------
(***************************************************************************)
(* Model of Identify_Hubs.py: the per-subject hub identification pipeline  *)
(* (make_zmat, dist_censor, run_infomap, run_pc_steps, label_hubs, main),  *)
(* and of the two scripts that read its outputs: Hub_Density_Map.py (the   *)
(* hub counts) and Create_Hub_Profiles.py (the hub connectivity profiles). *)
(*                                                                         *)
(* Numbers.  A matrix entry is a float: the model keeps it as an integer   *)
(* count of ticks of 10^-7 (so that the six decimals np.savetxt writes are *)
(* coarser than what is in memory), or NaN.  Scores (participation         *)
(* coefficients, percentiles, averages) are exact rationals num/den; the   *)
(* model's arithmetic is exact where the program's is IEEE double.         *)
(***************************************************************************)
EXTENDS Integers, Sequences, FiniteSets, TLC

\* ------------------------------------------------------------------ floats

NaN == [nan |-> TRUE, v |-> 0]

F(x) == [nan |-> FALSE, v |-> x]

\* np.isnan
isnan(x) == x.nan

\* x != 0 as numpy evaluates it: NaN is not equal to 0
nonzero(x) == x.nan \/ x.v # 0

\* float multiplication by a mask entry (0 or 1): NaN * anything is NaN
fmul(x, m) == IF x.nan THEN NaN ELSE F(x.v * m)

\* float addition
fadd(x, y) == IF x.nan \/ y.nan THEN NaN ELSE F(x.v + y.v)

RECURSIVE SumTo(_, _)
\* sum of the integers f[1] + ... + f[k]
SumTo(f, k) == IF k = 0 THEN 0 ELSE f[k] + SumTo(f, k - 1)

\* number of elements of the finite set S
Count(S) == Cardinality(S)

\* the sequence f with every element evaluated (f \o <<>> is f, as a tuple)
Seq1(f) == f \o <<>>

\* the matrix m with every entry evaluated
Mat(m) == Seq1([i \in 1..Len(m) |-> Seq1(m[i])])

\* ------------------------------------------------------------- rationals

\* a/b < c/d for a, c >= 0 and b, d > 0, by comparing integer parts and then
\* the flipped remainders (no product is formed, so nothing overflows)
RECURSIVE FracLt(_, _, _, _)
FracLt(a, b, c, d) ==
    LET q1 == a \div b
        q2 == c \div d
        r1 == a % b
        r2 == c % d
    IN  IF q1 # q2 THEN q1 < q2
        ELSE IF r2 = 0 THEN FALSE
        ELSE IF r1 = 0 THEN TRUE
        ELSE FracLt(d, r2, b, r1)

FracEq(a, b, c, d) == ~FracLt(a, b, c, d) /\ ~FracLt(c, d, a, b)

FracLe(a, b, c, d) == ~FracLt(c, d, a, b)


\* ------------------------------------------------------------ the inputs

\* the value np.fill_diagonal(ztrans_mat, 1) writes, 1.0, in ticks
OneTicks == 10000000

\* ticks per unit of the sixth decimal, the last digit fmt='%f' writes
CsvStep == 10

threshold_list == <<3, 4, 5, 10, 15, 20, 25, 30, 35, 40, 45, 50>>

\* the denominator of the densities of threshold_list: 0.003 is 3/1000
PerMille == 1000

\* A timeseries file is kept as what np.corrcoef makes of it: n rows, the
\* set const of constant rows (zero variance: their correlations are 0/0)
\* and, for every pair of rows i < j, their Pearson correlation r[<<i, j>>],
\* in ticks.

\* np.corrcoef(preprocd_ts), line 118: 1 on the diagonal, NaN in the row and
\* the column of a constant row
corrcoef(ts) ==
    Mat([i \in 1..ts.n |->
            [j \in 1..ts.n |->
                IF i \in ts.const \/ j \in ts.const THEN NaN
                ELSE IF i = j THEN F(OneTicks)
                ELSE IF i < j THEN F(ts.r[<<i, j>>]) ELSE F(ts.r[<<j, i>>])]])

\* np.fill_diagonal(m, x), lines 119 and 121
fill_diagonal(m, x) ==
    Mat([i \in 1..Len(m) |-> [j \in 1..Len(m) |-> IF i = j THEN x ELSE m[i][j]]])

\* x/s rounded to the nearest integer, halves to even (printf's rounding of
\* a decimal tie; the sign is kept)
RoundDiv(x, s) ==
    LET a == IF x < 0 THEN -x ELSE x
        q == a \div s
        r == a % s
        u == IF 2 * r > s \/ (2 * r = s /\ q % 2 = 1) THEN q + 1 ELSE q
    IN  IF x < 0 THEN -u ELSE u

\* the float inf, which np.arctanh returns for 1.0 (and -inf for -1.0)
Infinity == 2000000000

Inf == F(Infinity)

\* np.arctanh of one entry, line 120: arctanh(r) = r + r^3/3 + ..., whose
\* terms after the second are below a tick for the correlations of the
\* inputs (|r| < 0.004)
arctanh(x) ==
    IF x.nan THEN NaN
    ELSE IF x.v >= OneTicks THEN Inf
    ELSE IF x.v <= -OneTicks THEN F(-Infinity)
    ELSE F(x.v + RoundDiv(((x.v * x.v) \div OneTicks) * x.v, 3 * OneTicks))

\* make_zmat without its last line: the diagonal is left at arctanh(0)
make_zmat_unfilled(preprocd_ts) ==
    LET sub_corr_mat == fill_diagonal(corrcoef(preprocd_ts), F(0))
    IN  Mat([i \in 1..Len(sub_corr_mat) |->
                [j \in 1..Len(sub_corr_mat) |-> arctanh(sub_corr_mat[i][j])]])

\* make_zmat, lines 117-122
make_zmat(preprocd_ts) ==
    LET sub_corr_mat == fill_diagonal(corrcoef(preprocd_ts), F(0))
        ztrans_mat   == Mat([i \in 1..Len(sub_corr_mat) |->
                                [j \in 1..Len(sub_corr_mat) |-> arctanh(sub_corr_mat[i][j])]])
    IN  fill_diagonal(ztrans_mat, F(OneTicks))

\* ztrans_mat * mult_mat, elementwise (integers have no -0 to correct)
CensorProduct(ztrans_mat, mult_mat) ==
    Mat([i \in 1..Len(ztrans_mat) |->
            [j \in 1..Len(ztrans_mat) |-> fmul(ztrans_mat[i][j], mult_mat[i][j])]])

\* one cell of np.savetxt(..., fmt='%f'): the value with six decimals, kept as
\* its count of 10^-6, or the text nan
Fmt6(x) == IF x.nan THEN NaN ELSE F(RoundDiv(x.v, CsvStep))

savetxt(mat) == [i \in 1..Len(mat) |-> [j \in 1..Len(mat) |-> Fmt6(mat[i][j])]]

\* np.genfromtxt(path, delimiter=','): the floats the cells denote, in ticks
genfromtxt(csv) ==
    [i \in 1..Len(csv) |->
        [j \in 1..Len(csv) |->
            IF csv[i][j].nan THEN NaN ELSE F(csv[i][j].v * CsvStep)]]

\* ------------------------------------------- bct.threshold_proportional

\* bct's teachers_round of num/den >= 0: halves go up
teachers_round(num, den) == (2 * num + den) \div (2 * den)

\* np.allclose(W, W.T): a NaN is close to nothing
IsSymmetric(W) ==
    \A i, j \in 1..Len(W) :
        ~W[i][j].nan /\ ~W[j][i].nan /\ W[i][j].v = W[j][i].v

\* link a comes before link b in np.argsort(W[ind])[::-1]: NaN sorts last
\* ascending, hence first; of two equal values the later one of ind comes
\* first (a stable ascending sort, reversed)
SortsBefore(W, a, b) ==
    LET n  == Len(W)
        pa == (a[1] - 1) * n + a[2]
        pb == (b[1] - 1) * n + b[2]
        xa == W[a[1]][a[2]]
        xb == W[b[1]][b[2]]
    IN  IF xa.nan /\ xb.nan THEN pa > pb
        ELSE IF xa.nan THEN TRUE
        ELSE IF xb.nan THEN FALSE
        ELSE xa.v > xb.v \/ (xa.v = xb.v /\ pa > pb)

\* the number of links to be preserved
NumLinks(n, pm, ud) == teachers_round((n * n - n) * pm, PerMille * ud)

threshold_proportional(W, pm) ==
    LET n    == Len(W)
        W0   == Mat([i \in 1..n |-> [j \in 1..n |-> IF i = j THEN F(0) ELSE W[i][j]]])
        sym  == IsSymmetric(W0)
        W1   == IF sym
                THEN Mat([i \in 1..n |-> [j \in 1..n |-> IF j <= i THEN F(0) ELSE W0[i][j]]])
                ELSE W0
        ud   == IF sym THEN 2 ELSE 1
        ind  == {l \in (1..n) \X (1..n) : nonzero(W1[l[1]][l[2]])}
        en   == NumLinks(n, pm, ud)
        kept == {l \in ind : Count({m \in ind : SortsBefore(W1, m, l)}) < en}
        W2   == Mat([i \in 1..n |->
                       [j \in 1..n |-> IF <<i, j>> \in kept THEN W1[i][j] ELSE F(0)]])
    IN  IF sym
        THEN Mat([i \in 1..n |-> [j \in 1..n |-> fadd(W2[i][j], W2[j][i])]])
        ELSE W2

\* a check that never finds a NaN
check_nan_never(thresh_mat) == FALSE

\* np.isnan(np.sum(thresh_mat))
check_nan(thresh_mat) ==
    \E i, j \in 1..Len(thresh_mat) : thresh_mat[i][j].nan

\* np.triu(m, 1)
triu1(m) ==
    Mat([i \in 1..Len(m) |-> [j \in 1..Len(m) |-> IF j > i THEN m[i][j] ELSE F(0)]])


\* ------------------------------------------------------------- scores

\* A score (a percentile or an average of percentiles) is num/den, den > 0,
\* or NaN.
Score(num, den) == [nan |-> FALSE, num |-> num, den |-> den]

ScoreNaN == [nan |-> TRUE, num |-> 0, den |-> 1]

RECURSIVE Gcd(_, _)
Gcd(a, b) == IF b = 0 THEN a ELSE Gcd(b, a % b)

\* num/den in lowest terms
Reduced(num, den) ==
    LET g == Gcd(num, den) IN Score(num \div g, den \div g)

\* --------------------------------------------- participation coefficient

\* _, ci = np.unique(ci, return_inverse=True); ci += 1
unique_inverse(ci) ==
    [j \in 1..Len(ci) |->
        1 + Count({ci[k] : k \in {k \in 1..Len(ci) : ci[k] < ci[j]}})]

\* np.max(ci)
MaxCi(ci) == Count({ci[k] : k \in 1..Len(ci)})

\* Ko = np.sum(W, axis=1), row i
RowSum(W, i) == SumTo([j \in 1..Len(W) |-> W[i][j].v], Len(W))

\* np.sum(W * (Gc == c), axis=1), row i: the weight of row i into community c
RowSumInto(W, ci, i, c) ==
    SumTo([j \in 1..Len(W) |->
              IF W[i][j].v # 0 /\ ci[j] = c THEN W[i][j].v ELSE 0], Len(W))

\* Kc2, row i
Kc2Row(W, ci, i) ==
    LET into == Seq1([c \in 1..MaxCi(ci) |-> RowSumInto(W, ci, i, c)])
    IN  SumTo([c \in 1..Len(into) |-> into[c] * into[c]], Len(into))

\* The participation coefficient of a node is 1 - k/d with k = Kc2 and
\* d = Ko^2, kept as the pair (k, d); a node with Ko = 0 has no such pair:
\* 1 - 0/0 is NaN and 1 - k/0 with k > 0 is -inf.
PcNum(k, d) == [kind |-> "num", k |-> k, d |-> d]

PcNaN == [kind |-> "nan", k |-> 0, d |-> 1]

PcNegInf == [kind |-> "-inf", k |-> 0, d |-> 1]

\* coefficients with a 0 for every node whose Ko is 0, as bct zero-fills them
PC_wnans_zero_filled(W, aff_vect) ==
    LET ci == Seq1(unique_inverse(aff_vect))
    IN  Seq1([i \in 1..Len(W) |->
                IF RowSum(W, i) # 0
                THEN PcNum(Kc2Row(W, ci, i), RowSum(W, i) * RowSum(W, i))
                ELSE PcNum(1, 1)])

\* P = np.ones((n,)) - Kc2 / np.square(Ko), lines 232-241
PC_wnans_of(W, aff_vect) ==
    LET ci == Seq1(unique_inverse(aff_vect))
    IN  Seq1([i \in 1..Len(W) |->
                LET Ko  == RowSum(W, i)
                    Kc2 == Kc2Row(W, ci, i)
                IN  IF Ko # 0 THEN PcNum(Kc2, Ko * Ko)
                    ELSE IF Kc2 = 0 THEN PcNaN
                    ELSE PcNegInf])

\* bct.participation_coef: the same, with P = 0 for nodes with Ko = 0
participation_coef(W, aff_vect) ==
    LET P == PC_wnans_of(W, aff_vect)
    IN  Seq1([i \in 1..Len(W) |->
                IF P[i].kind = "num" THEN P[i] ELSE PcNum(1, 1)])

\* x < y for two coefficients 1 - k/d
PcLt(x, y) == FracLt(y.k, y.d, x.k, x.d)

\* stats.percentileofscore with kind='weak': the share of the elements <= score
percentileofscore_weak(left, right, n) == Score(right * 100, n)

\* stats.percentileofscore(a, score) (kind='rank') for a of length n with
\* left elements < score and right elements <= score
percentileofscore(left, right, n) ==
    Score((left + right + (IF right > left THEN 1 ELSE 0)) * 50, n)

\* PC_percs, line 245: the percentile of every coefficient among all of them
PC_percs_of(PC_nonans) ==
    Seq1([i \in 1..Len(PC_nonans) |->
            percentileofscore(
                Count({j \in 1..Len(PC_nonans) : PcLt(PC_nonans[j], PC_nonans[i])}),
                Count({j \in 1..Len(PC_nonans) : ~PcLt(PC_nonans[i], PC_nonans[j])}),
                Len(PC_nonans))])

\* np.argwhere(np.isnan(PC_wnans))
nan_mask_of(PC_wnans) == {i \in 1..Len(PC_wnans) : PC_wnans[i].kind = "nan"}

\* bct.degrees_und(CIJ): np.sum(binarize(CIJ), axis=0), the column sums
degrees_und(CIJ) ==
    Seq1([j \in 1..Len(CIJ) |-> Count({i \in 1..Len(CIJ) : nonzero(CIJ[i][j])})])

\* the k-th smallest element of d, k counted from 0
KthSmallest(d, k) ==
    CHOOSE v \in {d[j] : j \in 1..Len(d)} :
        /\ Count({j \in 1..Len(d) : d[j] <= v}) >= k + 1
        /\ Count({j \in 1..Len(d) : d[j] < v}) <= k

\* 4 * np.percentile(d, 25) (linear interpolation between the two order
\* statistics around position (n - 1) / 4)
Percentile25x4(d) ==
    LET n  == Len(d)
        lo == (n - 1) \div 4
        r  == (n - 1) % 4
    IN  IF r = 0 THEN 4 * KthSmallest(d, lo)
        ELSE 4 * KthSmallest(d, lo) + r * (KthSmallest(d, lo + 1) - KthSmallest(d, lo))

\* deg_mult = np.where(degs < low, 0, 1)
deg_mult_of(degs) ==
    LET low4 == Percentile25x4(degs)
    IN  Seq1([j \in 1..Len(degs) |-> IF 4 * degs[j] < low4 THEN 0 ELSE 1])

\* deg_cens_PC_percs = PC_percs * deg_mult, zeros turned into NaN
deg_cens_of(PC_percs, deg_mult) ==
    Seq1([i \in 1..Len(PC_percs) |->
            IF PC_percs[i].num * deg_mult[i] = 0 THEN ScoreNaN ELSE PC_percs[i]])

\* the degree-censored percentiles as they are, no NaN put back
put_back_nans_skipped(deg_cens_PC_percs, PC_nan_mask) == deg_cens_PC_percs

\* cens_PC_perc_wnan[PC_nan_mask] = nan
put_back_nans(deg_cens_PC_percs, PC_nan_mask) ==
    Seq1([i \in 1..Len(deg_cens_PC_percs) |->
            IF i \in PC_nan_mask THEN ScoreNaN ELSE deg_cens_PC_percs[i]])


\* ------------------------------------------------------ text and names

\* A string is a sequence of tokens; the literals of the source are written
\* token by token, split at every "_" and before every extension.

IsPrefix(p, s) == Len(p) <= Len(s) /\ SubSeq(s, 1, Len(p)) = p

RECURSIVE Replace(_, _, _)
\* str.replace(old, new): every occurrence, left to right
Replace(s, old, new) ==
    IF s = <<>> THEN <<>>
    ELSE IF IsPrefix(old, s)
         THEN new \o Replace(SubSeq(s, Len(old) + 1, Len(s)), old, new)
         ELSE <<Head(s)>> \o Replace(Tail(s), old, new)

RECURSIVE Join(_, _)
\* sep.join(parts)
Join(parts, sep) ==
    IF Len(parts) = 0 THEN <<>>
    ELSE IF Len(parts) = 1 THEN parts[1]
    ELSE parts[1] \o <<sep>> \o Join(Tail(parts), sep)

\* str(thresh) of the floats of threshold_list
StrFloat(pm) ==
    CASE pm = 3  -> "0.003"
      [] pm = 4  -> "0.004"
      [] pm = 5  -> "0.005"
      [] pm = 10 -> "0.01"
      [] pm = 15 -> "0.015"
      [] pm = 20 -> "0.02"
      [] pm = 25 -> "0.025"
      [] pm = 30 -> "0.03"
      [] pm = 35 -> "0.035"
      [] pm = 40 -> "0.04"
      [] pm = 45 -> "0.045"
      [] pm = 50 -> "0.05"

DigitChar == <<"0", "1", "2", "3", "4", "5", "6", "7", "8", "9">>

RECURSIVE StrInt(_)
\* str(k) of an integer k >= 0: its decimal digits
StrInt(k) ==
    IF k < 10 THEN <<DigitChar[k + 1]>> ELSE StrInt(k \div 10) \o <<DigitChar[(k % 10) + 1]>>

DigitValue(c) == (CHOOSE d \in 1..10 : DigitChar[d] = c) - 1

RECURSIVE ParseInt(_)
\* int(text) of a digit text
ParseInt(d) ==
    IF Len(d) = 1 THEN DigitValue(d[1])
    ELSE 10 * ParseInt(SubSeq(d, 1, Len(d) - 1)) + DigitValue(d[Len(d)])

Whitespace == {" ", "\t", "\n"}

RECURSIVE LStrip(_)
LStrip(s) == IF s # <<>> /\ Head(s) \in Whitespace THEN LStrip(Tail(s)) ELSE s

RECURSIVE RStrip(_)
RStrip(s) ==
    IF s # <<>> /\ s[Len(s)] \in Whitespace THEN RStrip(SubSeq(s, 1, Len(s) - 1)) ELSE s

\* str.strip()
Strip(s) == RStrip(LStrip(s))

RECURSIVE Split(_, _)
\* str.split(sep) for a one-character sep: the fields between the separators
Split(s, sep) ==
    IF \A k \in 1..Len(s) : s[k] # sep THEN <<s>>
    ELSE LET k == CHOOSE k \in 1..Len(s) : s[k] = sep /\ \A m \in 1..(k - 1) : s[m] # sep
         IN  <<SubSeq(s, 1, k - 1)>> \o Split(SubSeq(s, k + 1, Len(s)), sep)

\* subid + '_' + str(thresh) + '_upper_mat.net', line 156
pajek_name(subid, thresh) ==
    subid \o <<"_", StrFloat(thresh), "_", "upper", "_", "mat", ".net">>

\* os.path.basename(pajek_path).replace('.net',''), line 159
output_name(subid, thresh) == Replace(pajek_name(subid, thresh), <<".net">>, <<>>)

\* the file infomap writes for --clu --out-name output_name
clu_name(subid, thresh) == output_name(subid, thresh) \o <<".clu">>

\* cf.replace('_upper_mat.clu','_aff_vect_REF.txt'), line 188
aff_ref_path(cf) ==
    Replace(cf, <<"_", "upper", "_", "mat", ".clu">>,
                <<"_", "aff", "_", "vect", "_", "REF", ".txt">>)

\* cf.replace('_upper_mat.clu','_aff_vect.txt'), line 189
aff_vect_path(cf) ==
    Replace(cf, <<"_", "upper", "_", "mat", ".clu">>, <<"_", "aff", "_", "vect", ".txt">>)

\* a name that takes the first threshold of the sweep whatever thr is
vect_text_first(subid, thr) ==
    Join(<<subid, <<StrFloat(threshold_list[1])>>, <<"aff">>, <<"vect", ".txt">>>>, "_")

\* '_'.join([subid,str(thr),'aff','vect.txt']), lines 219-222
vect_text(subid, thr) ==
    Join(<<subid, <<StrFloat(thr)>>, <<"aff">>, <<"vect", ".txt">>>>, "_")

\* f'{subid}_{thr}_CENS_PC_PERC.txt', lines 257 and 269
pc_perc_path(subid, thr) ==
    subid \o <<"_", StrFloat(thr), "_", "CENS", "_", "PC", "_", "PERC", ".txt">>

\* subid + '_DIST_CENSORED_ZMAT.csv', lines 135 and 210
zmat_name(subid) == subid \o <<"_", "DIST", "_", "CENSORED", "_", "ZMAT", ".csv">>

\* f'{subid}_FINAL_AVG_PC_PERCENTAGE.txt', lines 278 and 291
avg_pc_path(subid) ==
    subid \o <<"_", "FINAL", "_", "AVG", "_", "PC", "_", "PERCENTAGE", ".txt">>

\* f'{subid}_HUB_INDICES.txt', line 303
hub_indices_path(subid) == subid \o <<"_", "HUB", "_", "INDICES", ".txt">>

\* glob.glob(os.path.join(dir, subid + '*')) over the files of a directory
Glob(dir, subid) == {name \in DOMAIN dir : IsPrefix(subid, name)}

\* a directory without the files of gone
Without(dir, gone) == [name \in DOMAIN dir \ gone |-> dir[name]]

\* a directory with file name written (created or overwritten)
WriteFile(dir, name, content) ==
    [x \in DOMAIN dir \cup {name} |-> IF x = name THEN content ELSE dir[x]]

EmptyDir == [name \in {} |-> <<>>]


\* --------------------------------------------- averaging and hub labels

ScoreLt(x, y) == FracLt(x.num, x.den, y.num, y.den)

ScoreAdd(x, y) == Reduced(x.num * y.den + y.num * x.den, x.den * y.den)

RECURSIVE ScoreSum(_, _)
\* the sum of the non-NaN scores among col[1..k]
ScoreSum(col, k) ==
    IF k = 0 THEN Score(0, 1)
    ELSE IF col[k].nan THEN ScoreSum(col, k - 1)
    ELSE ScoreAdd(ScoreSum(col, k - 1), col[k])

\* a mean that counts every NaN as 0: the sum over the length of the column
nanmean_zero_filled(col) ==
    LET sum == ScoreSum(col, Len(col))
    IN  Reduced(sum.num, sum.den * Len(col))

\* np.nanmean of one column: the mean of its non-NaN entries, NaN if none
nanmean(col) ==
    LET cnt == Count({k \in 1..Len(col) : ~col[k].nan})
        sum == ScoreSum(col, Len(col))
    IN  IF cnt = 0 THEN ScoreNaN ELSE Reduced(sum.num, sum.den * cnt)

\* np.nan_to_num
nan_to_num(x) == IF x.nan THEN Score(0, 1) ELSE x

\* lines 273-275: allPC_percs_wnans holds one row per threshold
avg_PC_perc_of(allPC_percs_wnans) ==
    Seq1([i \in 1..Len(allPC_percs_wnans[1]) |->
            nan_to_num(nanmean([t \in 1..Len(allPC_percs_wnans) |->
                                   allPC_percs_wnans[t][i]]))])

\* str(x) of a float score: nan, or the repr that float() reads back exactly
StrScore(x) ==
    IF x.nan THEN [text |-> "nan", num |-> 0, den |-> 1]
    ELSE [text |-> "repr", num |-> x.num, den |-> x.den]

\* float(text)
ParseScore(t) == IF t.text = "nan" THEN ScoreNaN ELSE Score(t.num, t.den)

\* the file written by the loops of lines 258-262 and 279-283
ScoreFile(vect) == [i \in 1..Len(vect) |-> StrScore(vect[i])]

\* np.loadtxt of such a file
LoadScores(file) == Seq1([i \in 1..Len(file) |-> ParseScore(file[i])])

\* the hub cutoff of line 295
HubCutoff == 80

\* final_avg_perc_vect, line 294
final_avg_perc_vect_of(avg_vect) ==
    Seq1([i \in 1..Len(avg_vect) |->
            percentileofscore(
                Count({j \in 1..Len(avg_vect) : ScoreLt(avg_vect[j], avg_vect[i])}),
                Count({j \in 1..Len(avg_vect) : ~ScoreLt(avg_vect[i], avg_vect[j])}),
                Len(avg_vect))])

\* a cutoff that is not inclusive: a score of exactly 80 is zeroed as well
cens_avg_vect_strict(final_avg_perc_vect) ==
    [i \in 1..Len(final_avg_perc_vect) |->
        IF FracLe(final_avg_perc_vect[i].num, final_avg_perc_vect[i].den, HubCutoff, 1)
        THEN Score(0, 1) ELSE final_avg_perc_vect[i]]

\* cens_avg_vect = np.where(final_avg_perc_vect < 80, 0, final_avg_perc_vect)
cens_avg_vect_of(final_avg_perc_vect) ==
    [i \in 1..Len(final_avg_perc_vect) |->
        IF FracLt(final_avg_perc_vect[i].num, final_avg_perc_vect[i].den, HubCutoff, 1)
        THEN Score(0, 1) ELSE final_avg_perc_vect[i]]

\* np.nonzero(cens_avg_vect)[0]: the 0-based positions of the nonzero entries
nonzero_indices(cens_avg_vect) ==
    {i - 1 : i \in {i \in 1..Len(cens_avg_vect) : cens_avg_vect[i].num # 0}}

\* hub_indices + 1, lines 296-298
hub_set_of(avg_vect) ==
    {k + 1 : k \in nonzero_indices(cens_avg_vect_of(final_avg_perc_vect_of(avg_vect)))}

RECURSIVE Ascending(_)
\* the elements of a finite set of integers in ascending order
Ascending(S) ==
    IF S = {} THEN <<>>
    ELSE LET m == CHOOSE m \in S : \A x \in S : m <= x
         IN  <<m>> \o Ascending(S \ {m})

\* hub_list, line 299
hub_list_of(avg_vect) == Ascending(hub_set_of(avg_vect))

\* the file written by lines 304-308: one line str(hi) + ' ' per hub
HubFile(hub_list) == [k \in 1..Len(hub_list) |-> StrInt(hub_list[k]) \o <<" ">>]

\* ------------------------------------------------- the hub dlabel file

\* A color is a tuple (red, green, blue, alpha) of floats of 0..1, kept in
\* units of 10^-5.  A label table is the dict of the template's label axis,
\* kept as the sequence of its items [lab, name, color] in the dict's order.

\* overlay_color, lines 99-108: pink, crimson or lime
overlay_color_of(choice) ==
    CASE choice = 1 -> <<100000, 7843, 57647, 100000>>
      [] choice = 2 -> <<86270, 7843, 23529, 100000>>
      [] choice = 3 -> <<0, 100000, 0, 100000>>

\* f'    -Subject_Hub_{hub_number}', line 329
hub_label(hub_number) == <<"    -Subject_Hub_">> \o StrInt(hub_number)

\* a non-hub color left as it is
color_tup_kept(color) == color

\* color_tup, lines 336-338: the color with its last channel set to 0
color_tup_of(color) == [color EXCEPT ![Len(color)] = 0]

RECURSIVE edit_labels(_, _, _, _)
\* the loop of lines 325-339 over the items of label_dict from hub_number on
edit_labels(label_dict, hub_list, overlay_color, hub_number) ==
    IF label_dict = <<>> THEN <<>>
    ELSE LET item == Head(label_dict)
         IN  IF \E k \in 1..Len(hub_list) : hub_list[k] = item.lab
             THEN <<[lab |-> item.lab, name |-> hub_label(hub_number),
                     color |-> overlay_color]>> \o
                  edit_labels(Tail(label_dict), hub_list, overlay_color, hub_number + 1)
             ELSE IF item.lab = 0
             THEN <<item>> \o
                  edit_labels(Tail(label_dict), hub_list, overlay_color, hub_number)
             ELSE <<[lab |-> item.lab, name |-> item.name,
                     color |-> color_tup_of(item.color)]>> \o
                  edit_labels(Tail(label_dict), hub_list, overlay_color, hub_number)

\* label_dict after lines 323-339
label_dict_of(template, hub_list, choice) ==
    edit_labels(template, hub_list, overlay_color_of(choice), 1)

\* f'{subid}.dlabel.nii', line 345
dlabel_path(subid) == subid \o <<".dlabel.nii">>

\* ----------------------------------------------------------- infomap

\* The community detection binary is outside the program.  For a graph of n
\* nodes and a seed it writes a .clu file: comment lines, and one line
\* "node_id module flow" per node, in an order of its own.  The model's
\* binary takes one of three labellings and listing orders by the seed.
InfomapModule(n, seed, i) ==
    CASE seed % 3 = 0 -> i
      [] seed % 3 = 1 -> 1 + (i % 2)
      [] seed % 3 = 2 -> 1 + ((n - i) \div 3)

InfomapOrder(n, seed, k) ==
    CASE seed % 3 = 0 -> k
      [] seed % 3 = 1 -> n + 1 - k
      [] seed % 3 = 2 -> 1 + ((k + 1) % n)

CluComment == <<"#", " ", "node", " ", "module", " ", "flow", "\n">>

CluLine(i, m) == StrInt(i) \o <<" ">> \o StrInt(m) \o <<" ", "0.01", "\n">>

Infomap(n, seed) ==
    <<CluComment>> \o
    [k \in 1..n |-> CluLine(InfomapOrder(n, seed, k),
                            InfomapModule(n, seed, InfomapOrder(n, seed, k)))]

\* the lines of a file read at lines 178-186 without an exception: a line
\* without a '#' has at least two fields
IsClu(file) ==
    \A k \in 1..Len(file) :
        \/ \E c \in 1..Len(file[k]) : file[k][c] = "#"
        \/ Len(Split(Strip(file[k]), " ")) >= 2

\* lines 178-186: the (node, module) pairs of the lines without a '#'
clu_tup_of(clu_file) ==
    LET data == SelectSeq(clu_file, LAMBDA line : \A k \in 1..Len(line) : line[k] # "#")
    IN  [k \in 1..Len(data) |->
            LET sl == Split(Strip(data[k]), " ")
            IN  <<ParseInt(sl[1]), ParseInt(sl[2])>>]

\* the tuples in the order of the .clu file, not sorted
SortedByFirst_unsorted(tups) == tups

RECURSIVE SortedByFirst(_)
\* sorted(clu_tup, key=lambda x: x[0]): stable, ascending in the node number
SortedByFirst(tups) ==
    IF Len(tups) = 0 THEN <<>>
    ELSE LET k == CHOOSE k \in 1..Len(tups) :
                      /\ \A m \in 1..Len(tups) : tups[k][1] <= tups[m][1]
                      /\ \A m \in 1..(k - 1) : tups[m][1] # tups[k][1]
         IN  <<tups[k]>> \o
             SortedByFirst(SubSeq(tups, 1, k - 1) \o SubSeq(tups, k + 1, Len(tups)))

\* the reference file, lines 193-197: "node label " per line
AffRefFile(s_tups) ==
    [k \in 1..Len(s_tups) |-> StrInt(s_tups[k][1]) \o <<" ">> \o StrInt(s_tups[k][2]) \o <<" ">>]

\* the affiliation vector file, lines 199-203: "label " per line
AffVectFile(s_tups) == [k \in 1..Len(s_tups) |-> StrInt(s_tups[k][2]) \o <<" ">>]

\* np.loadtxt(vect_text): one number per line
LoadAff(file) == Seq1([k \in 1..Len(file) |-> ParseInt(Strip(file[k]))])

\* random.randint: the generator is a deterministic stream from its start state
Randint(r) == 1 + ((r * 2503) % 9999)

NextRng(r) == (5 * r + 3) % 16


\* ------------------------------------------------------------- the state

VARIABLES
    pc,                      \* where main is: "entry", "infomap", "collect", "pc",
                             \* "avg", "label", "done", "exited" (sys.exit) or
                             \* "crashed" (an uncaught exception)
    nocleanup,               \* args.nocleanup, read (and drawn) at line 374
    outdir,                  \* args.outdir, the path of the output directory
    overlay,                 \* args.overlay: 1, 2 or 3
    gordon_labels,           \* the label table of the template dlabel file
    input_data,              \* the cleaned lines of the manifest
    ts_files,                \* the timeseries files by path
    mult_mat,                \* the distance mask
    infomap_installed,       \* whether the infomap binary runs and writes
    rng,                     \* the state of the random module
    idx,                     \* the position of entry in input_data
    subid,                   \* main's subid
    ti,                      \* the position of thresh / thr in threshold_list
    preprocd_ts,             \* main's preprocd_ts, the timeseries loaded last
    ztrans_mat,              \* main's ztrans_mat, what make_zmat returned last
    dist_censored_zmat,      \* main's dist_censored_zmat (ready_zmat)
    orig_dist_censored_zmat, \* run_pc_steps' matrix, read from the csv
    dirs,                    \* the directories under args.outdir
    csv_outputs,             \* the files of each directory, by name
    pajek_files,
    infomap_outputs,
    pc_outputs,
    final_avg_pc_percs,
    final_hub_indices,
    final_hubs_dlabels,
    infomap_calls,           \* the infomap invocations so far: <<subid, thresh>>
    written,                 \* the files written so far: <<directory, name>>
    pcl,                     \* the locals of the last pass of run_pc_steps' loop
    hdm_pc,                  \* where Hub_Density_Map.py is: "start", "done" or
                             \* "crashed"
    value_vect_out,          \* the hub counts file Hub_Density_Map.py writes
    chp_pc,                  \* where Create_Hub_Profiles.py is: "start",
                             \* "profiles", "exited" or "crashed"
    sub_done,                \* the subjects of sub_list whose profiles are made
    final_csv_outputs,       \* the files of the directories that
    final_conn_profiles      \* Create_Hub_Profiles.py reads and writes

config == <<nocleanup, outdir, overlay, gordon_labels, input_data, ts_files, mult_mat,
            infomap_installed>>

files == <<dirs, csv_outputs, pajek_files, infomap_outputs, pc_outputs,
           final_avg_pc_percs, final_hub_indices, final_hubs_dlabels>>

zmats == <<preprocd_ts, ztrans_mat, dist_censored_zmat>>

\* the state of the scripts that run after Identify_Hubs.py
hdm == <<hdm_pc, value_vect_out>>

chp == <<chp_pc, sub_done, final_csv_outputs, final_conn_profiles>>

downstream == <<hdm, chp>>

vars == <<pc, config, rng, idx, subid, ti, zmats,
          orig_dist_censored_zmat, files, infomap_calls, written, pcl, downstream>>

out_subdirs == {"pajek_files", "infomap_outputs", "pc_outputs", "csv_outputs",
                "final_avg_pc_percs", "final_hub_indices", "final_hubs_dlabels"}

\* the name of a directory of out_subdirs, in pieces
DirName(d) ==
    CASE d = "pajek_files"        -> <<"pajek", "_", "files">>
      [] d = "infomap_outputs"    -> <<"infomap", "_", "outputs">>
      [] d = "pc_outputs"         -> <<"pc", "_", "outputs">>
      [] d = "csv_outputs"        -> <<"csv", "_", "outputs">>
      [] d = "final_avg_pc_percs" -> <<"final", "_", "avg", "_", "pc", "_", "percs">>
      [] d = "final_hub_indices"  -> <<"final", "_", "hub", "_", "indices">>
      [] d = "final_hubs_dlabels" -> <<"final", "_", "hubs", "_", "dlabels">>

\* os.path.join(args.outdir, d): the paths that glob lists at line 378
path_join(dir, d) == dir \o <<"/">> \o DirName(d)

\* 'final' in deldir, line 381: the test is on the whole path
has_final(deldir) == \E k \in 1..Len(deldir) : deldir[k] = "final"

NoMatrix == <<>>

NoFile == <<>>

NoTimeseries == [n |-> 0, const |-> {}, r |-> <<>>]

NoLocals == [thr |-> 0]

\* an exit that would end the subject only: main's loop goes on with the
\* next entry
sys_exit_continue(i) == [pc |-> "entry", idx |-> i + 1]

\* sys.exit(...), line 150, met while main is at entry i of input_data: the
\* interpreter ends, main's loop goes no further
sys_exit(i) == [pc |-> "exited", idx |-> i]

\* lines 79-82: the lines stripped, the empty ones dropped
CleanLines(lines) ==
    SelectSeq([k \in 1..Len(lines) |-> Strip(lines[k])], LAMBDA line : line # <<>>)


\* ------------------------------------------------------------ the inputs

\* the number of parcels (rows of a timeseries, rows of the mask)
NumParcels == 12

\* the start states of the random module
MaxRng == 1

Pairs(n) == {p \in (1..n) \X (1..n) : p[1] < p[2]}

\* a timeseries of n rows whose correlations are those of links, 0 elsewhere
Timeseries(n, const, links) ==
    [n |-> n, const |-> const,
     r |-> [p \in Pairs(n) |-> IF p \in DOMAIN links THEN links[p] ELSE 0]]

LinksA ==
    (<<1, 2>> :> 304) @@ (<<1, 3>> :> 203) @@ (<<2, 4>> :> 152) @@
    (<<3, 5>> :> 101) @@ (<<1, 4>> :> 500) @@ (<<5, 6>> :> 57)

LinksC == (<<1, 2>> :> 200) @@ (<<1, 3>> :> -200) @@ (<<4, 5>> :> 4)

\* the timeseries files of the run: /a and /c are clean, row 3 of /b is
\* constant; a path of the manifest that is not here is a missing file
TsFiles ==
    ("/a" :> Timeseries(NumParcels, {}, LinksA)) @@
    ("/b" :> Timeseries(NumParcels, {3}, LinksA)) @@
    ("/c" :> Timeseries(NumParcels, {}, LinksC))

Paths == {"/a", "/b", "/c", "/x"}

\* the distance mask: 1 everywhere but on the censored pairs
Mask(n, censored) ==
    [i \in 1..n |->
        [j \in 1..n |-> IF <<i, j>> \in censored \/ <<j, i>> \in censored THEN 0 ELSE 1]]

IdPairs == {<<(<<"s">>), (<<"t">>)>>, <<(<<"s">>), (<<"s", "1">>)>>, <<(<<"s", "1">>), (<<"s">>)>>}

ManifestLine(id, path) == id \o <<" ", path, "\n">>

\* the manifests: two subjects, and a blank last line
Manifests ==
    {<<ManifestLine(p[1], a), ManifestLine(p[2], b), <<"\n">>>> :
        p \in IdPairs, a \in Paths, b \in Paths}

\* the separators of a manifest line other than one space: two spaces, a tab,
\* a space and a tab
Separators == {<<" ", " ">>, <<"\t">>, <<" ", "\t">>}

\* the manifests whose first line has such a separator
OddManifests ==
    {<<(<<"s">>) \o sep \o <<"/a", "\n">>, ManifestLine(<<"t">>, "/a"), <<"\n">>>> :
        sep \in Separators}

\* what an earlier run on the same output directory left in infomap_outputs:
\* nothing, or the affiliation vectors of subject s (all parcels in module 1)
StaleAff ==
    [name \in {vect_text(<<"s">>, threshold_list[t]) : t \in 1..Len(threshold_list)} |->
        [k \in 1..NumParcels |-> <<"1", " ">>]]

\* the number of parcels of the dense inputs: enough for the sweep's 5% of
\* the links to reach three quarters of the nodes
DenseParcels == 32

\* node 1 linked to every other node
LinksStarLow(n) == [p \in {<<1, j>> : j \in 2..n} |-> 500 + 10 * (p[2] % 3)]

\* node n linked to every other node
LinksStarHigh(n) == [p \in {<<i, n>> : i \in 1..(n - 1)} |-> 500 + 10 * (p[1] % 3)]

\* every node linked to the next one, the later links the stronger
LinksChain(n) == [p \in {<<i, i + 1>> : i \in 1..(n - 1)} |-> 300 + 10 * p[1]]

\* nodes 1 and 2 linked to every later node, some links negative
LinksTwoHubs(n) ==
    [p \in {<<i, j>> : i \in 1..2, j \in 3..n} |->
        IF p[2] % 5 = 0 THEN -400 ELSE 400 + 10 * ((p[1] + p[2]) % 4)]

DenseTsFiles ==
    ("/d1" :> Timeseries(DenseParcels, {}, LinksStarLow(DenseParcels))) @@
    ("/d2" :> Timeseries(DenseParcels, {}, LinksStarHigh(DenseParcels))) @@
    ("/d3" :> Timeseries(DenseParcels, {}, LinksChain(DenseParcels))) @@
    ("/d4" :> Timeseries(DenseParcels, {}, LinksTwoHubs(DenseParcels)))

\* the label table of a template of n parcels: key 0 (no parcel) and the
\* parcels 1..n in ascending order, every parcel opaque, in a color of its own
GordonLabels(n) ==
    [p \in 1..(n + 1) |->
        IF p = 1 THEN [lab |-> 0, name |-> <<"???">>, color |-> <<0, 0, 0, 0>>]
        ELSE [lab |-> p - 1,
              name |-> <<"Parcel", "_">> \o StrInt(p - 1),
              color |-> <<1000 * ((37 * p) % 100), 1000 * ((11 * p + 5) % 100),
                          1000 * ((53 * p) % 100), 100000>>]] \o <<>>

\* the output directories: one without 'final' in its path and one with it
PlainOutdir == <<"/", "data", "/", "out">>

FinalOutdir == <<"/", "data", "/", "final", "_", "run">>

\* two subjects of NumParcels parcels each, in an output directory that may
\* hold what an earlier run left
InitSmall ==
    /\ outdir = PlainOutdir
    /\ gordon_labels = GordonLabels(NumParcels)
    /\ input_data \in {CleanLines(m) : m \in Manifests \cup OddManifests}
    /\ ts_files = TsFiles
    /\ mult_mat = Mask(NumParcels, {<<1, 4>>})
    /\ infomap_installed \in BOOLEAN
    /\ infomap_outputs \in {EmptyDir, StaleAff}

\* two subjects of NumParcels parcels each, in an output directory with
\* 'final' in its path
InitFinalOutdir ==
    /\ outdir = FinalOutdir
    /\ gordon_labels = GordonLabels(NumParcels)
    /\ input_data = CleanLines(<<ManifestLine(<<"s">>, "/a"), ManifestLine(<<"t">>, "/c")>>)
    /\ ts_files = TsFiles
    /\ mult_mat = Mask(NumParcels, {<<1, 4>>})
    /\ infomap_installed = TRUE
    /\ infomap_outputs = EmptyDir

\* one subject of DenseParcels parcels
InitDense ==
    /\ outdir = PlainOutdir
    /\ gordon_labels = GordonLabels(DenseParcels)
    /\ input_data \in {CleanLines(<<ManifestLine(<<"s">>, path)>>) : path \in DOMAIN DenseTsFiles}
    /\ ts_files = DenseTsFiles
    /\ mult_mat = Mask(DenseParcels, {})
    /\ infomap_installed = TRUE
    /\ infomap_outputs = EmptyDir

\* main before its loop: the manifest is read and cleaned (lines 78-84) and
\* the output directories exist (lines 87-97)
Init ==
    /\ pc = "entry"
    /\ nocleanup = FALSE
    /\ overlay = 1
    /\ InitSmall \/ InitFinalOutdir \/ InitDense
    /\ rng \in 0..MaxRng
    /\ idx = 1
    /\ subid = <<>>
    /\ ti = 1
    /\ preprocd_ts = NoTimeseries
    /\ ztrans_mat = NoMatrix
    /\ dist_censored_zmat = NoMatrix
    /\ orig_dist_censored_zmat = NoMatrix
    /\ dirs = out_subdirs
    /\ csv_outputs = EmptyDir
    /\ pajek_files = EmptyDir
    /\ pc_outputs = EmptyDir
    /\ final_avg_pc_percs = EmptyDir
    /\ final_hub_indices = EmptyDir
    /\ final_hubs_dlabels = EmptyDir
    /\ infomap_calls = <<>>
    /\ written = {}
    /\ pcl = NoLocals
    /\ hdm_pc = "start"
    /\ value_vect_out = NoFile
    /\ chp_pc = "start"
    /\ sub_done = {}
    /\ final_csv_outputs = EmptyDir
    /\ final_conn_profiles = EmptyDir

\* ----------------------------------------------------------- the steps

\* main, lines 354-366, and run_infomap up to its loop, lines 141-144: the
\* entry is split, the timeseries loaded, the matrix built, censored and
\* saved, and the subject's files in infomap_outputs are removed
StartEntry ==
    /\ pc = "entry"
    /\ idx <= Len(input_data)
    /\ LET fields == Split(input_data[idx], " ")
           loaded == /\ Len(fields) >= 2
                     /\ fields[2] # <<>>
                     /\ fields[2][1] \in DOMAIN ts_files
                     /\ Len(fields[2]) = 1
                     /\ ts_files[fields[2][1]].n = Len(mult_mat)
           ts     == ts_files[fields[2][1]]
           zmat   == CensorProduct(make_zmat(ts), mult_mat)
       IN  /\ subid' = fields[1]
           /\ IF loaded
              THEN /\ pc' = "infomap"
                   /\ preprocd_ts' = ts
                   /\ ztrans_mat' = make_zmat(ts)
                   /\ dist_censored_zmat' = zmat
                   /\ csv_outputs' = WriteFile(csv_outputs, zmat_name(fields[1]), savetxt(zmat))
                   /\ written' = written \cup {<<"csv_outputs", zmat_name(fields[1])>>}
                   /\ dirs' = dirs \cup {"csv_outputs"}
                   /\ infomap_outputs' =
                          Without(infomap_outputs, Glob(infomap_outputs, fields[1]))
              ELSE /\ pc' = "crashed"
                   /\ UNCHANGED <<zmats, csv_outputs, written, dirs,
                                  infomap_outputs>>
    /\ ti' = 1
    /\ UNCHANGED <<config, downstream, rng, idx, orig_dist_censored_zmat, pajek_files, pc_outputs,
                   final_avg_pc_percs, final_hub_indices, final_hubs_dlabels, infomap_calls, pcl>>

\* one pass of run_infomap's loop, lines 145-170
InfomapThreshold ==
    /\ pc = "infomap"
    /\ LET thresh     == threshold_list[ti]
           thresh_mat == threshold_proportional(dist_censored_zmat, thresh)
       IN  IF check_nan(thresh_mat)
           THEN /\ pc' = sys_exit(idx).pc
                /\ idx' = sys_exit(idx).idx
                /\ UNCHANGED <<ti, rng, pajek_files, infomap_outputs, infomap_calls, written>>
           ELSE /\ idx' = idx
                /\ pajek_files' =
                       WriteFile(pajek_files, pajek_name(subid, thresh), thresh_mat)
                /\ rng' = NextRng(rng)
                /\ infomap_calls' = Append(infomap_calls, <<subid, thresh>>)
                /\ IF infomap_installed
                   THEN /\ infomap_outputs' =
                               WriteFile(infomap_outputs, clu_name(subid, thresh),
                                         Infomap(Len(thresh_mat), Randint(rng)))
                        /\ written' = written \cup
                               {<<"pajek_files", pajek_name(subid, thresh)>>,
                                <<"infomap_outputs", clu_name(subid, thresh)>>}
                   ELSE /\ UNCHANGED infomap_outputs
                        /\ written' = written \cup
                               {<<"pajek_files", pajek_name(subid, thresh)>>}
                /\ IF ti < Len(threshold_list)
                   THEN pc' = "infomap" /\ ti' = ti + 1
                   ELSE pc' = "collect" /\ ti' = 1
    /\ UNCHANGED <<config, downstream, subid, zmats, orig_dist_censored_zmat,
                   dirs, csv_outputs, pc_outputs, final_avg_pc_percs,
                   final_hub_indices, final_hubs_dlabels, pcl>>


\* infomap_outputs after lines 172-203: for every file cf of clu_files the
\* reference file and then the affiliation vector are written
CollectedDir(dir, clu_files) ==
    LET refs == {aff_ref_path(cf) : cf \in clu_files}
        affs == {aff_vect_path(cf) : cf \in clu_files}
        tups(name, Path(_)) ==
            SortedByFirst(clu_tup_of(dir[CHOOSE cf \in clu_files : Path(cf) = name]))
    IN  [name \in DOMAIN dir \cup refs \cup affs |->
            IF name \in affs THEN AffVectFile(tups(name, aff_vect_path))
            ELSE IF name \in refs THEN AffRefFile(tups(name, aff_ref_path))
            ELSE dir[name]]

\* the end of run_infomap, lines 171-203, and run_pc_steps up to its loop,
\* lines 207-212.  A file of the glob whose lines do not hold two fields
\* raises at line 186: the files that the loop met before it (the glob's
\* order is the directory's) are collected, and main ends.
CollectClu ==
    /\ pc = "collect"
    /\ LET clu_files == Glob(infomap_outputs, subid)
           readable  == {cf \in clu_files : IsClu(infomap_outputs[cf])}
       IN  \E done \in (IF readable = clu_files THEN {clu_files} ELSE SUBSET readable) :
               /\ infomap_outputs' = CollectedDir(infomap_outputs, done)
               /\ written' = written \cup
                      {<<"infomap_outputs", aff_ref_path(cf)>> : cf \in done} \cup
                      {<<"infomap_outputs", aff_vect_path(cf)>> : cf \in done}
               /\ IF readable = clu_files /\ zmat_name(subid) \in DOMAIN csv_outputs
                  THEN /\ orig_dist_censored_zmat' =
                              genfromtxt(csv_outputs[zmat_name(subid)])
                       /\ pc' = "pc"
                  ELSE /\ pc' = "crashed"
                       /\ UNCHANGED orig_dist_censored_zmat
    /\ ti' = 1
    /\ UNCHANGED <<config, downstream, rng, idx, subid, zmats, dirs, csv_outputs,
                   pajek_files, pc_outputs, final_avg_pc_percs, final_hub_indices, final_hubs_dlabels,
                   infomap_calls, pcl>>

\* the locals of one pass of run_pc_steps' loop, lines 216-255
PcLocals(zmat, thr, aff_vect) ==
    LET pc_thresh_mat     == threshold_proportional(zmat, thr)
        pc_upper_mat      == triu1(pc_thresh_mat)
        PC_nonans         == participation_coef(pc_upper_mat, aff_vect)
        PC_wnans          == PC_wnans_of(pc_upper_mat, aff_vect)
        PC_nan_mask       == nan_mask_of(PC_wnans)
        PC_percs          == PC_percs_of(PC_nonans)
        degs              == degrees_und(pc_upper_mat)
        deg_mult          == deg_mult_of(degs)
        deg_cens_PC_percs == deg_cens_of(PC_percs, deg_mult)
    IN  [thr |-> thr,
         pc_thresh_mat |-> pc_thresh_mat,
         pc_upper_mat |-> pc_upper_mat,
         aff_vect |-> aff_vect,
         PC_nonans |-> PC_nonans,
         PC_wnans |-> PC_wnans,
         PC_nan_mask |-> PC_nan_mask,
         PC_percs |-> PC_percs,
         degs |-> degs,
         deg_mult |-> deg_mult,
         deg_cens_PC_percs |-> deg_cens_PC_percs,
         cens_PC_perc_wnan |-> put_back_nans(deg_cens_PC_percs, PC_nan_mask)]

\* one pass of run_pc_steps' loop, lines 213-262
PcThreshold ==
    /\ pc = "pc"
    /\ LET thr  == threshold_list[ti]
           name == vect_text(subid, thr)
           ok   == /\ name \in DOMAIN infomap_outputs
                   /\ Len(infomap_outputs[name]) = Len(orig_dist_censored_zmat)
           loc  == PcLocals(orig_dist_censored_zmat, thr, LoadAff(infomap_outputs[name]))
       IN  IF ok
           THEN /\ pcl' = loc
                /\ pc_outputs' = WriteFile(pc_outputs, pc_perc_path(subid, thr),
                                           ScoreFile(loc.cens_PC_perc_wnan))
                /\ written' = written \cup {<<"pc_outputs", pc_perc_path(subid, thr)>>}
                /\ IF ti < Len(threshold_list)
                   THEN pc' = "pc" /\ ti' = ti + 1
                   ELSE pc' = "avg" /\ ti' = 1
           ELSE /\ pc' = "crashed"
                /\ UNCHANGED <<pcl, pc_outputs, written, ti>>
    /\ UNCHANGED <<config, downstream, rng, idx, subid, zmats, orig_dist_censored_zmat,
                   dirs, csv_outputs, pajek_files, infomap_outputs, final_avg_pc_percs,
                   final_hub_indices, final_hubs_dlabels, infomap_calls>>

\* all_thresh_PCs_list, lines 267-271
all_thresh_PCs_list_of(dir, sub) ==
    [t \in 1..Len(threshold_list) |-> LoadScores(dir[pc_perc_path(sub, threshold_list[t])])]

\* the end of run_pc_steps, lines 265-283; its locals end with it
Average ==
    /\ pc = "avg"
    /\ final_avg_pc_percs' =
           WriteFile(final_avg_pc_percs, avg_pc_path(subid),
                     ScoreFile(avg_PC_perc_of(all_thresh_PCs_list_of(pc_outputs, subid))))
    /\ written' = written \cup {<<"final_avg_pc_percs", avg_pc_path(subid)>>}
    /\ pc' = "label"
    /\ pcl' = NoLocals
    /\ UNCHANGED <<config, downstream, rng, idx, subid, ti, zmats,
                   orig_dist_censored_zmat, dirs, csv_outputs, pajek_files,
                   infomap_outputs, pc_outputs, final_hub_indices, final_hubs_dlabels, infomap_calls>>

\* label_hubs, lines 287-347, and the step of main's loop to the next entry:
\* the hub index file and the dlabel file with the edited label table
LabelHubs ==
    /\ pc = "label"
    /\ LET hub_list == hub_list_of(LoadScores(final_avg_pc_percs[avg_pc_path(subid)]))
       IN  /\ final_hub_indices' =
                  WriteFile(final_hub_indices, hub_indices_path(subid), HubFile(hub_list))
           /\ final_hubs_dlabels' =
                  WriteFile(final_hubs_dlabels, dlabel_path(subid),
                            label_dict_of(gordon_labels, hub_list, overlay))
    /\ written' = written \cup {<<"final_hub_indices", hub_indices_path(subid)>>,
                                <<"final_hubs_dlabels", dlabel_path(subid)>>}
    /\ pc' = "entry"
    /\ idx' = idx + 1
    /\ UNCHANGED <<config, downstream, rng, subid, ti, zmats, orig_dist_censored_zmat,
                   dirs, csv_outputs, pajek_files, infomap_outputs, pc_outputs,
                   final_avg_pc_percs, infomap_calls, pcl>>

\* the files of directory d after the loop of lines 379-386: shutil.rmtree
\* removes the directory and its files unless its path has 'final' in it
Kept(d, dir_files) == IF has_final(path_join(outdir, d)) THEN dir_files ELSE EmptyDir

\* main after its loop, lines 373-388: unless args.nocleanup, every directory
\* of the output directory without 'final' in its path is removed
Cleanup ==
    /\ pc = "entry"
    /\ idx > Len(input_data)
    /\ pc' = "done"
    /\ \E flag \in BOOLEAN :
        /\ nocleanup' = flag
        /\ IF flag
           THEN UNCHANGED files
           ELSE /\ dirs' = {d \in dirs : has_final(path_join(outdir, d))}
                /\ csv_outputs' = Kept("csv_outputs", csv_outputs)
                /\ pajek_files' = Kept("pajek_files", pajek_files)
                /\ infomap_outputs' = Kept("infomap_outputs", infomap_outputs)
                /\ pc_outputs' = Kept("pc_outputs", pc_outputs)
                /\ final_avg_pc_percs' = Kept("final_avg_pc_percs", final_avg_pc_percs)
                /\ final_hub_indices' = Kept("final_hub_indices", final_hub_indices)
                /\ final_hubs_dlabels' = Kept("final_hubs_dlabels", final_hubs_dlabels)
    /\ UNCHANGED <<downstream, outdir, overlay, gordon_labels, input_data, ts_files, mult_mat,
                   infomap_installed, rng, idx, subid, ti,
                   zmats, orig_dist_censored_zmat, infomap_calls, written, pcl>>

Next ==
    \/ StartEntry
    \/ InfomapThreshold
    \/ CollectClu
    \/ PcThreshold
    \/ Average
    \/ LabelHubs
    \/ Cleanup

Spec == Init /\ [][Next]_vars

\* ------------------------------------------- label_hubs on its own input

\* label_hubs is a function of the averaged vector it loads.  LabelSpec
\* starts main at label_hubs with an averaged vector of LabelParcels scores
\* drawn from LabelScores (0 is the score of a parcel that was NaN at every
\* threshold) and takes the one step LabelHubs.

\* the number of parcels of the averaged vectors of LabelSpec
LabelParcels == 5

LabelScores == {Score(0, 1), Score(55, 2), Score(4025, 54), Score(100, 1)}

LabelInit ==
    /\ pc = "label"
    /\ nocleanup = FALSE
    /\ outdir = PlainOutdir
    /\ overlay \in 1..3
    /\ gordon_labels = GordonLabels(LabelParcels)
    /\ input_data = CleanLines(<<ManifestLine(<<"s">>, "/a")>>)
    /\ ts_files = TsFiles
    /\ mult_mat = Mask(NumParcels, {})
    /\ infomap_installed = TRUE
    /\ rng = 0
    /\ idx = 1
    /\ subid = <<"s">>
    /\ ti = 1
    /\ preprocd_ts = NoTimeseries
    /\ ztrans_mat = NoMatrix
    /\ dist_censored_zmat = NoMatrix
    /\ orig_dist_censored_zmat = NoMatrix
    /\ dirs = out_subdirs
    /\ csv_outputs = EmptyDir
    /\ pajek_files = EmptyDir
    /\ infomap_outputs = EmptyDir
    /\ pc_outputs = EmptyDir
    /\ \E avg_vect \in [1..LabelParcels -> LabelScores] :
           final_avg_pc_percs = WriteFile(EmptyDir, avg_pc_path(<<"s">>), ScoreFile(avg_vect))
    /\ final_hub_indices = EmptyDir
    /\ final_hubs_dlabels = EmptyDir
    /\ infomap_calls = <<>>
    /\ written = {<<"final_avg_pc_percs", avg_pc_path(<<"s">>)>>}
    /\ pcl = NoLocals
    /\ hdm_pc = "start"
    /\ value_vect_out = NoFile
    /\ chp_pc = "start"
    /\ sub_done = {}
    /\ final_csv_outputs = EmptyDir
    /\ final_conn_profiles = EmptyDir

LabelSpec == LabelInit /\ [][LabelHubs]_vars


\* ------------------------------- the averaging and label_hubs on their own

\* The end of run_pc_steps and label_hubs are a function of the 12
\* per-threshold files of the subject.  AverageSpec starts main at the
\* averaging with files of MinParcels..AverageParcels parcels, the 12 scores
\* of each parcel drawn from Columns, and takes the steps Average and
\* LabelHubs.

\* the fewest parcels a subject of AverageSpec has
MinParcels == 2

\* the most parcels a subject of AverageSpec has
AverageParcels == 4

\* the scores of one parcel at the 12 thresholds: NaN at all of them, a
\* percentile of 100 or of 50 at all, NaN at all but the last, or percentiles
\* of 50 and 100 in turn
Columns ==
    {[t \in 1..Len(threshold_list) |-> ScoreNaN],
     [t \in 1..Len(threshold_list) |-> Score(100, 1)],
     [t \in 1..Len(threshold_list) |-> Score(50, 1)],
     [t \in 1..Len(threshold_list) |->
         IF t < Len(threshold_list) THEN ScoreNaN ELSE Score(100, 1)],
     [t \in 1..Len(threshold_list) |->
         IF t % 2 = 1 THEN Score(50, 1) ELSE Score(100, 1)]}

\* the files of pc_outputs after the 12 passes of the loop of lines 213-262
\* for subject sub, parcel i having the scores cols[i]
PcOutputsOf(sub, cols) ==
    [name \in {pc_perc_path(sub, threshold_list[t]) : t \in 1..Len(threshold_list)} |->
        LET t == CHOOSE t \in 1..Len(threshold_list) :
                     pc_perc_path(sub, threshold_list[t]) = name
        IN  ScoreFile([i \in 1..Len(cols) |-> cols[i][t]])]

AverageInit ==
    /\ pc = "avg"
    /\ nocleanup = FALSE
    /\ outdir = PlainOutdir
    /\ overlay = 1
    /\ input_data = CleanLines(<<ManifestLine(<<"s">>, "/a")>>)
    /\ ts_files = TsFiles
    /\ mult_mat = Mask(NumParcels, {})
    /\ infomap_installed = TRUE
    /\ rng = 0
    /\ idx = 1
    /\ subid = <<"s">>
    /\ ti = 1
    /\ preprocd_ts = NoTimeseries
    /\ ztrans_mat = NoMatrix
    /\ dist_censored_zmat = NoMatrix
    /\ orig_dist_censored_zmat = NoMatrix
    /\ dirs = out_subdirs
    /\ csv_outputs = EmptyDir
    /\ pajek_files = EmptyDir
    /\ infomap_outputs = EmptyDir
    /\ \E n \in MinParcels..AverageParcels :
           /\ gordon_labels = GordonLabels(n)
           /\ \E cols \in [1..n -> Columns] :
                  pc_outputs = PcOutputsOf(<<"s">>, cols)
    /\ final_avg_pc_percs = EmptyDir
    /\ final_hub_indices = EmptyDir
    /\ final_hubs_dlabels = EmptyDir
    /\ infomap_calls = <<>>
    /\ written = {<<"pc_outputs", pc_perc_path(<<"s">>, threshold_list[t])>> :
                      t \in 1..Len(threshold_list)}
    /\ pcl = NoLocals
    /\ hdm_pc = "start"
    /\ value_vect_out = NoFile
    /\ chp_pc = "start"
    /\ sub_done = {}
    /\ final_csv_outputs = EmptyDir
    /\ final_conn_profiles = EmptyDir

AverageNext == Average \/ LabelHubs

AverageSpec == AverageInit /\ [][AverageNext]_vars

\* ----------------------------------------------------- Hub_Density_Map.py

\* Hub_Density_Map.py is a function of the files of the directory of hub
\* index files it is given.  DensitySpec starts with that directory holding
\* the hub index files of three subjects, written as label_hubs writes them
\* (the last one with an empty line after its hubs), and takes the one step
\* HubDensityMap.

\* the number of parcels of the Gordon parcellation: the keys 1..333 of
\* hub_counts_dict, lines 67-87, and range(1, 334), line 100
GordonParcels == 333

\* hub_indices, lines 92-94: the lines stripped, the empty ones dropped, the
\* others read as integers
hub_indices_of(file) ==
    LET stripped == SelectSeq([k \in 1..Len(file) |-> Strip(file[k])],
                              LAMBDA line : line # <<>>)
    IN  [k \in 1..Len(stripped) |-> ParseInt(stripped[k])]

\* how many times hub_num is in the list hub_indices
Occurrences(hub_indices, hub_num) ==
    Count({k \in 1..Len(hub_indices) : hub_indices[k] = hub_num})

RECURSIVE CountedIn(_, _, _)
\* what the loop of lines 89-97 over the files names of indices_dir adds to
\* hub_counts_dict[hub_num]
CountedIn(indices_dir, names, hub_num) ==
    IF names = {} THEN 0
    ELSE LET ind_file == CHOOSE name \in names : TRUE
         IN  Occurrences(hub_indices_of(indices_dir[ind_file]), hub_num) +
             CountedIn(indices_dir, names \ {ind_file}, hub_num)

\* a dictionary that only records that some file lists the parcel
hub_counts_dict_flags(indices_dir) ==
    [hub_num \in 1..GordonParcels |->
        IF CountedIn(indices_dir, DOMAIN indices_dir, hub_num) > 0 THEN 1 ELSE 0]

\* hub_counts_dict after lines 67-97
hub_counts_dict_of(indices_dir) ==
    [hub_num \in 1..GordonParcels |-> CountedIn(indices_dir, DOMAIN indices_dir, hub_num)]

\* the lines of the file of lines 98-106: str(h_count) for h_num = 1..333
value_vect_lines(hub_counts_dict) ==
    [h_num \in 1..GordonParcels |-> StrInt(hub_counts_dict[h_num]) \o <<"\n">>] \o <<>>

\* a hub of a file is no key of hub_counts_dict: line 97 raises KeyError
KeyError(indices_dir) ==
    \E name \in DOMAIN indices_dir :
        \E k \in 1..Len(hub_indices_of(indices_dir[name])) :
            hub_indices_of(indices_dir[name])[k] \notin 1..GordonParcels

\* Hub_Density_Map.py, lines 67-106, on the directory final_hub_indices
HubDensityMap ==
    /\ hdm_pc = "start"
    /\ IF KeyError(final_hub_indices)
       THEN hdm_pc' = "crashed" /\ UNCHANGED value_vect_out
       ELSE /\ hdm_pc' = "done"
            /\ value_vect_out' = value_vect_lines(hub_counts_dict_of(final_hub_indices))
    /\ UNCHANGED <<pc, config, rng, idx, subid, ti, zmats, orig_dist_censored_zmat,
                   files, infomap_calls, written, pcl, chp>>

\* the parcels that the hub index files of DensitySpec may list
DensityHubs == {5, 10, GordonParcels}

\* the hub index file of a set of hubs, as label_hubs writes it
HubFileOf(hubs) == HubFile(Ascending(hubs))

\* Identify_Hubs.py is over, and left nothing but these hub index files
DensityInit ==
    /\ pc = "done"
    /\ nocleanup = FALSE
    /\ outdir = PlainOutdir
    /\ overlay = 1
    /\ gordon_labels = GordonLabels(LabelParcels)
    /\ input_data = <<>>
    /\ ts_files = TsFiles
    /\ mult_mat = Mask(NumParcels, {})
    /\ infomap_installed = TRUE
    /\ rng = 0
    /\ idx = 1
    /\ subid = <<>>
    /\ ti = 1
    /\ preprocd_ts = NoTimeseries
    /\ ztrans_mat = NoMatrix
    /\ dist_censored_zmat = NoMatrix
    /\ orig_dist_censored_zmat = NoMatrix
    /\ dirs = {"final_avg_pc_percs", "final_hub_indices", "final_hubs_dlabels"}
    /\ csv_outputs = EmptyDir
    /\ pajek_files = EmptyDir
    /\ infomap_outputs = EmptyDir
    /\ pc_outputs = EmptyDir
    /\ final_avg_pc_percs = EmptyDir
    /\ \E hs \in SUBSET DensityHubs, ht \in SUBSET DensityHubs, hu \in SUBSET DensityHubs :
           final_hub_indices =
               WriteFile(WriteFile(WriteFile(EmptyDir,
                   hub_indices_path(<<"s">>), HubFileOf(hs)),
                   hub_indices_path(<<"t">>), HubFileOf(ht)),
                   hub_indices_path(<<"u">>), HubFileOf(hu) \o <<(<<" ">>)>>)
    /\ final_hubs_dlabels = EmptyDir
    /\ infomap_calls = <<>>
    /\ written = {}
    /\ pcl = NoLocals
    /\ hdm_pc = "start"
    /\ value_vect_out = NoFile
    /\ chp_pc = "start"
    /\ sub_done = {}
    /\ final_csv_outputs = EmptyDir
    /\ final_conn_profiles = EmptyDir

DensitySpec == DensityInit /\ [][HubDensityMap]_vars

\* ------------------------------------------------- Create_Hub_Profiles.py

\* the directories Create_Hub_Profiles.py reads under the output directory of
\* Identify_Hubs.py: the hub index lists (lines 61-65) and the distance
\* censored matrices (lines 66-70)
hub_indices_dir == "final_hub_indices"

dist_cens_zmat_dir == "final_csv_outputs"

\* the files of directory d of the output directory
DirFiles(d) ==
    CASE d = "csv_outputs"        -> csv_outputs
      [] d = "pajek_files"        -> pajek_files
      [] d = "infomap_outputs"    -> infomap_outputs
      [] d = "pc_outputs"         -> pc_outputs
      [] d = "final_avg_pc_percs" -> final_avg_pc_percs
      [] d = "final_hub_indices"  -> final_hub_indices
      [] d = "final_hubs_dlabels" -> final_hubs_dlabels
      [] d = "final_csv_outputs"  -> final_csv_outputs
      [] d = "final_conn_profiles" -> final_conn_profiles
      [] OTHER                    -> EmptyDir

\* os.path.isdir, lines 62 and 67
isdir(d) == d \in dirs

\* zmat_file, lines 197-199, is a file of the directory: pd.read_csv reads it
zmat_readable(sub) ==
    /\ isdir(dist_cens_zmat_dir)
    /\ zmat_name(sub) \in DOMAIN DirFiles(dist_cens_zmat_dir)

\* the network lists, lines 86-105: the zero-indexed parcels of each of the
\* 13 networks
aud ==
    <<9, 63, 64, 65, 66, 67, 68, 69, 76, 101, 103, 159, 170, 223, 226,
      229, 231, 232, 238, 243, 267, 268, 328, 329>>

co ==
    <<20, 21, 26, 27, 33, 39, 62, 70, 71, 75, 80, 81, 83, 100, 102, 104,
      110, 111, 146, 152, 179, 180, 184, 186, 187, 191, 195, 197, 218,
      222, 233, 234, 237, 244, 245, 247, 248, 273, 316, 317>>

cp ==
    <<11, 88, 92, 172, 253>>

dmn ==
    <<0, 3, 5, 24, 25, 43, 93, 113, 115, 116, 125, 126, 144, 145, 149,
      150, 151, 153, 155, 156, 161, 164, 183, 185, 199, 219, 224, 256,
      258, 277, 278, 289, 314, 315, 320, 321, 322, 323, 324, 325, 330>>

da ==
    <<40, 41, 42, 48, 50, 51, 54, 73, 86, 87, 90, 91, 94, 99, 105, 106,
      109, 112, 154, 188, 198, 202, 207, 210, 235, 249, 251, 252, 261,
      265, 270, 274>>

fp ==
    <<6, 8, 23, 77, 95, 107, 108, 147, 148, 166, 167, 169, 181, 239,
      259, 260, 271, 272, 275, 276, 318, 319, 326, 327>>

none ==
    <<10, 17, 18, 72, 114, 117, 118, 119, 120, 121, 122, 123, 124, 127,
      128, 132, 133, 134, 141, 143, 158, 171, 177, 178, 279, 280, 281,
      282, 283, 284, 285, 286, 287, 288, 290, 291, 295, 296, 299, 300,
      301, 302, 303, 304, 305, 311, 313>>

ret ==
    <<12, 13, 129, 142, 173, 293, 294, 312>>

sal ==
    <<28, 82, 182, 246>>

ssmh ==
    <<1, 29, 30, 31, 32, 34, 35, 36, 37, 44, 45, 46, 47, 49, 53, 55, 56,
      57, 162, 189, 190, 192, 193, 194, 200, 201, 203, 204, 205, 206,
      208, 209, 212, 213, 214, 215, 216, 269>>

ssmm ==
    <<2, 38, 52, 58, 163, 196, 211, 217>>

va ==
    <<22, 59, 60, 61, 74, 78, 79, 84, 85, 157, 160, 220, 221, 225, 227,
      228, 230, 236, 240, 241, 242, 331, 332>>

vis ==
    <<4, 7, 14, 15, 16, 19, 89, 96, 97, 98, 130, 131, 135, 136, 137,
      138, 139, 140, 165, 168, 174, 175, 176, 250, 254, 255, 257, 262,
      263, 264, 266, 292, 297, 298, 306, 307, 308, 309, 310>>

\* net_conns' order, lines 128-130
networks == <<aud, co, cp, dmn, da, fp, none, ret, sal, ssmh, ssmm, va, vis>>

\* pd.read_csv(zmat_file, header=None), line 199: the floats the cells
\* denote, in ticks
read_csv(csv) == genfromtxt(csv)

\* hub_indices, lines 203-206: the lines stripped and read as integers
hub_indices_int(file) == [k \in 1..Len(file) |-> ParseInt(Strip(file[k]))]

\* [all_hub_conns[i] for i in net], lines 115-127
conns_of(all_hub_conns, net) == [k \in 1..Len(net) |-> all_hub_conns[net[k] + 1]]

\* 1.0 in nc, line 132
has_one(nc) == \E k \in 1..Len(nc) : nc[k] = F(OneTicks)

\* a list from which nothing is removed
remove_none(nc) == nc

\* nc.remove(1.0), line 134: nc without the first of its items equal to 1.0
remove_one(nc) ==
    IF ~has_one(nc) THEN nc
    ELSE LET k == CHOOSE k \in 1..Len(nc) :
                      nc[k] = F(OneTicks) /\ \A m \in 1..(k - 1) : nc[m] # F(OneTicks)
         IN  SubSeq(nc, 1, k - 1) \o SubSeq(nc, k + 1, Len(nc))

\* corr_removed after the loop of lines 131-136
corr_removed_of(net_conns) == Count({n \in 1..Len(net_conns) : has_one(net_conns[n])})

RECURSIVE SumCells(_, _)
\* the sum of the values nc[1], ..., nc[k]
SumCells(nc, k) == IF k = 0 THEN 0 ELSE nc[k].v + SumCells(nc, k - 1)

\* ticks per unit of the fourth decimal, the last digit round(num, 4) keeps
ProfileStep == 1000

\* str(round(np.mean(nc), 4)), lines 141-148: the mean with four decimals,
\* kept as its count of 10^-4, or nan (a tie goes to the even digit here; in
\* Python it goes where the double nearest to the mean is)
avg_conn(nc) ==
    IF \E k \in 1..Len(nc) : nc[k].nan THEN NaN
    ELSE F(RoundDiv(SumCells(nc, Len(nc)), Len(nc) * ProfileStep))

\* the lists of one hub after the loop of lines 131-136
net_conns_of(all_hub_conns) ==
    [n \in 1..Len(networks) |-> remove_one(conns_of(all_hub_conns, networks[n]))]

\* the hub hi of hub_indices passes the check of lines 137-140
self_corr_removed(zmat, hi) ==
    corr_removed_of([n \in 1..Len(networks) |-> conns_of(zmat[hi], networks[n])]) = 1

\* profile, lines 141-150: the key sub_hi and the 13 averages
profile_of(sub, zmat, hi) ==
    [key   |-> sub \o <<"_">> \o StrInt(hi),
     conns |-> [n \in 1..Len(networks) |-> avg_conn(net_conns_of(zmat[hi])[n])] \o <<>>]

\* conn_profiles, lines 109-151, when every hub passes the check
conn_profiles_of(sub, zmat, hub_indices) ==
    [k \in 1..Len(hub_indices) |-> profile_of(sub, zmat, hub_indices[k])] \o <<>>

\* sub + '_HUB_CONN_PROFILES.txt', line 153
cp_outfile_path(sub) == sub \o <<"_", "HUB", "_", "CONN", "_", "PROFILES", ".txt">>

\* the_file.replace('_HUB_INDICES.txt', ''), line 191
sub_of(the_file) == Replace(the_file, <<"_", "HUB", "_", "INDICES", ".txt">>, <<>>)

\* main up to the subject list, lines 60-82: the two input directories are
\* looked for and the directory of the profiles is made
ChpStart ==
    /\ chp_pc = "start"
    /\ IF isdir(hub_indices_dir) /\ isdir(dist_cens_zmat_dir)
       THEN chp_pc' = "profiles" /\ dirs' = dirs \cup {"final_conn_profiles"}
       ELSE chp_pc' = "exited" /\ UNCHANGED dirs
    /\ UNCHANGED <<pc, config, rng, idx, subid, ti, zmats, orig_dist_censored_zmat,
                   csv_outputs, pajek_files, infomap_outputs, pc_outputs,
                   final_avg_pc_percs, final_hub_indices, final_hubs_dlabels,
                   infomap_calls, written, pcl, hdm, sub_done, final_csv_outputs,
                   final_conn_profiles>>

\* one pass of the loop over sub_list, lines 193-210, for a subject of the
\* glob of line 79 (in the glob's order): its matrix and hubs are read and
\* create_profiles, lines 107-158, writes its profiles, or calls sys.exit at
\* the first hub that fails the check.  What main does after the loop
\* (make_corr) is not part of the model.
CreateProfiles ==
    /\ chp_pc = "profiles"
    /\ \E the_file \in DOMAIN final_hub_indices :
        LET sub         == sub_of(the_file)
            hub_indices == hub_indices_int(final_hub_indices[hub_indices_path(sub)])
            zmat        == read_csv(final_csv_outputs[zmat_name(sub)])
        IN  /\ sub \notin sub_done
            /\ IF \/ zmat_name(sub) \notin DOMAIN final_csv_outputs
                  \/ hub_indices_path(sub) \notin DOMAIN final_hub_indices
                  \/ \E k \in 1..Len(hub_indices) :
                         \/ hub_indices[k] \notin 1..Len(zmat)
                         \/ Len(zmat[hub_indices[k]]) < GordonParcels
               THEN chp_pc' = "crashed" /\ UNCHANGED <<sub_done, final_conn_profiles>>
               ELSE IF \E k \in 1..Len(hub_indices) : ~self_corr_removed(zmat, hub_indices[k])
               THEN chp_pc' = "exited" /\ UNCHANGED <<sub_done, final_conn_profiles>>
               ELSE /\ chp_pc' = "profiles"
                    /\ sub_done' = sub_done \cup {sub}
                    /\ final_conn_profiles' =
                           WriteFile(final_conn_profiles, cp_outfile_path(sub),
                                     conn_profiles_of(sub, zmat, hub_indices))
    /\ UNCHANGED <<pc, config, rng, idx, subid, ti, zmats, orig_dist_censored_zmat,
                   files, infomap_calls, written, pcl, hdm, final_csv_outputs>>

\* Create_Hub_Profiles.py is a function of the hub index files and the
\* matrices it finds.  ProfileSpec starts after a run of Identify_Hubs.py for
\* one subject s of 333 parcels, with the subject's matrix in
\* final_csv_outputs (put there by hand: Identify_Hubs.py writes it to
\* csv_outputs), or without that directory, and runs the script.

\* the hub lists of subject s
ProfileHubLists ==
    {<<>>, <<1>>, <<12>>, <<89>>, <<333>>, <<12, 89>>, <<29, 89>>, <<1, 29, 333>>}

\* the pairs of parcels whose value in the matrix is 1.000000: none; 89 and
\* 12, 12 and 173, 1 and 4 (of one network each); 89 and 1, 333 and 1 (of
\* two networks each)
ProfileOnes == {{}, {<<12, 89>>}, {<<12, 173>>}, {<<1, 4>>}, {<<1, 89>>}, {<<1, 333>>}}

\* a csv file as np.savetxt writes it (cells in units of 10^-6): 1.000000 on
\* the diagonal and on the pairs of ones, small values elsewhere
ProfileCsv(ones) ==
    Mat([i \in 1..GordonParcels |->
            [j \in 1..GordonParcels |->
                LET a == IF i < j THEN i ELSE j
                    b == IF i < j THEN j ELSE i
                IN  IF a = b \/ <<a, b>> \in ones THEN F(OneTicks \div CsvStep)
                    ELSE F(1000 * (((7 * a + 13 * b) % 41) - 20))]])

\* main's variables after a run of Identify_Hubs.py with cleanup, but for
\* dirs and final_hub_indices
MainOver ==
    /\ pc = "done"
    /\ nocleanup = FALSE
    /\ outdir = PlainOutdir
    /\ overlay = 1
    /\ gordon_labels = GordonLabels(LabelParcels)
    /\ input_data = <<>>
    /\ ts_files = TsFiles
    /\ mult_mat = Mask(NumParcels, {})
    /\ infomap_installed = TRUE
    /\ rng = 0
    /\ idx = 1
    /\ subid = <<>>
    /\ ti = 1
    /\ preprocd_ts = NoTimeseries
    /\ ztrans_mat = NoMatrix
    /\ dist_censored_zmat = NoMatrix
    /\ orig_dist_censored_zmat = NoMatrix
    /\ csv_outputs = EmptyDir
    /\ pajek_files = EmptyDir
    /\ infomap_outputs = EmptyDir
    /\ pc_outputs = EmptyDir
    /\ final_avg_pc_percs = EmptyDir
    /\ final_hubs_dlabels = EmptyDir
    /\ infomap_calls = <<>>
    /\ written = {}
    /\ pcl = NoLocals

ProfileInit ==
    /\ MainOver
    /\ hdm_pc = "start"
    /\ value_vect_out = NoFile
    /\ chp_pc = "start"
    /\ sub_done = {}
    /\ final_conn_profiles = EmptyDir
    /\ \E hub_list \in ProfileHubLists :
           final_hub_indices = WriteFile(EmptyDir, hub_indices_path(<<"s">>), HubFile(hub_list))
    /\ \/ /\ dirs = {"final_avg_pc_percs", "final_hub_indices", "final_hubs_dlabels"}
          /\ final_csv_outputs = EmptyDir
       \/ /\ dirs = {"final_avg_pc_percs", "final_hub_indices", "final_hubs_dlabels",
                     "final_csv_outputs"}
          /\ \E ones \in ProfileOnes :
                 final_csv_outputs = WriteFile(EmptyDir, zmat_name(<<"s">>), ProfileCsv(ones))

ProfileNext == ChpStart \/ CreateProfiles

ProfileSpec == ProfileInit /\ [][ProfileNext]_vars

\* ------------------------------------------------------- the properties

\* the subject of entry k of input_data, and the path of its timeseries
EntryId(k) == Split(input_data[k], " ")[1]

EntryPath(k) ==
    LET fields == Split(input_data[k], " ")
    IN  IF Len(fields) >= 2 /\ fields[2] # <<>> THEN fields[2][1] ELSE ""

\* the elements of a sequence
Range(s) == {s[k] : k \in 1..Len(s)}

\* the parcel numbers a hub index file lists
Listed(file) == {ParseInt(Strip(file[k])) : k \in 1..Len(file)}

\* the subjects with a hub index file
Labelled == {k \in 1..Len(input_data) : hub_indices_path(EntryId(k)) \in DOMAIN final_hub_indices}

\* the re-percentiled scores of the subject of entry k
RePercentiled(k) ==
    final_avg_perc_vect_of(LoadScores(final_avg_pc_percs[avg_pc_path(EntryId(k))]))

AtLeast80(x) == ~FracLt(x.num, x.den, 80, 1)

Exactly80(x) == FracEq(x.num, x.den, 80, 1)

PersistedColumn(sub, i) ==
    [t \in 1..Len(threshold_list) |->
        ParseScore(pc_outputs[pc_perc_path(sub, threshold_list[t])][i])]

Valid(col) == {t \in 1..Len(col) : ~col[t].nan}

\* C2: in the averaged file run_pc_steps has written, the value of each parcel
\* is the mean of its non-NaN scores over the 12 thresholds (a NaN is left
\* out, not counted as 0), a parcel that is NaN at all 12 thresholds has
\* exactly 0, and no entry of the file is NaN.
C2_AverageIgnoresNaN ==
    pc = "label" =>
        LET avg == final_avg_pc_percs[avg_pc_path(subid)]
        IN  \A i \in 1..Len(avg) :
                LET col == PersistedColumn(subid, i)
                    cnt == Count(Valid(col))
                    sum == ScoreSum(col, Len(col))
                IN  /\ avg[i].text # "nan"
                    /\ Len(col) = 12
                    /\ IF cnt = 0 THEN avg[i].num = 0
                       ELSE FracEq(avg[i].num * cnt, avg[i].den, sum.num, sum.den)

\* an averaged file with a parcel that is NaN at some thresholds only, one
\* that is NaN at none, and one that is NaN at all and has 0
C2_Witness ==
    /\ pc = "label"
    /\ LET avg == final_avg_pc_percs[avg_pc_path(subid)]
           cnt(i) == Count(Valid(PersistedColumn(subid, i)))
       IN  /\ \E i \in 1..Len(avg) : cnt(i) \in 1..11 /\ avg[i].num # 0
           /\ \E i \in 1..Len(avg) : cnt(i) = 0 /\ avg[i].num = 0

\* the percentile file the last pass of run_pc_steps' loop has written
Persisted == pc_outputs[pc_perc_path(subid, pcl.thr)]

InPass == pcl.thr # 0

\* C3: at every threshold a node whose with-NaN participation coefficient is
\* NaN is NaN in the persisted censored percentile vector, whatever its degree
\* and its percentile; a node that degree censoring made NaN stays NaN, and a
\* number in the file is the node's computed percentile.
C3_NaNStaysNaN ==
    InPass =>
        \A i \in 1..Len(Persisted) :
            /\ pcl.PC_wnans[i].kind = "nan" => Persisted[i].text = "nan"
            /\ pcl.deg_cens_PC_percs[i].nan => Persisted[i].text = "nan"
            /\ Persisted[i].text # "nan" => ParseScore(Persisted[i]) = pcl.PC_percs[i]

\* a node with a NaN coefficient that the degree censoring let through, with
\* a degree and a percentile from the no-NaN variant, NaN in the file
C3_Witness ==
    /\ InPass
    /\ \E i \in 1..Len(Persisted) :
           /\ pcl.PC_wnans[i].kind = "nan"
           /\ pcl.degs[i] >= 1
           /\ pcl.deg_mult[i] = 1
           /\ ~pcl.deg_cens_PC_percs[i].nan
           /\ Persisted[i].text = "nan"

\* the number of retained edges of node i in the thresholded undirected graph
Degree(W, i) == Count({j \in 1..Len(W) : nonzero(W[i][j])})

\* C4: at every threshold a node of zero degree in the thresholded undirected
\* graph has a NaN with-NaN participation coefficient, and its entry in the
\* persisted percentile vector is NaN.
C4_ZeroDegreeIsNaN ==
    InPass =>
        \A i \in 1..Len(Persisted) :
            Degree(pcl.pc_thresh_mat, i) = 0 =>
                pcl.PC_wnans[i].kind = "nan" /\ Persisted[i].text = "nan"

\* a thresholded graph with a node of zero degree and a node with edges
C4_Witness ==
    /\ InPass
    /\ \E i \in 1..Len(Persisted) :
           Degree(pcl.pc_thresh_mat, i) = 0 /\ Persisted[i].text = "nan"
    /\ \E j \in 1..Len(Persisted) : Degree(pcl.pc_thresh_mat, j) > 0

\* the degrees of the nodes of the thresholded undirected graph
Degrees(W) == Seq1([i \in 1..Len(W) |-> Degree(W, i)])

\* node i is strictly below the 25th percentile of the degrees d
BelowQuartile(d, i) == 4 * d[i] < Percentile25x4(d)

\* C5: at every threshold, with the degree of a node the number of its
\* retained edges in the thresholded undirected graph, low-degree censoring
\* makes a node's score NaN if and only if its degree is strictly below the
\* 25th percentile of the degrees, and a node at or above it with a valid
\* participation coefficient keeps its computed percentile in the file.
C5_CensoredIffBelowQuartile ==
    InPass =>
        LET d == Degrees(pcl.pc_thresh_mat)
        IN  \A i \in 1..Len(d) :
                /\ pcl.deg_cens_PC_percs[i].nan <=> BelowQuartile(d, i)
                /\ (~BelowQuartile(d, i) /\ pcl.PC_wnans[i].kind = "num") =>
                       ParseScore(Persisted[i]) = pcl.PC_percs[i]

\* C6: the affiliation vector run_pc_steps loads for (subject, threshold) is
\* the file run_infomap wrote in this run from the community detection output
\* for the same subject and threshold, and both functions derive the same
\* file name from every threshold of the sweep.
C6_SameAffiliationFile ==
    /\ \A k \in 1..Len(input_data) : \A t \in 1..Len(threshold_list) :
           vect_text(EntryId(k), threshold_list[t]) =
               aff_vect_path(clu_name(EntryId(k), threshold_list[t]))
    /\ InPass =>
           LET name == vect_text(subid, pcl.thr)
               clu  == clu_name(subid, pcl.thr)
           IN  /\ <<subid, pcl.thr>> \in Range(infomap_calls)
               /\ <<"infomap_outputs", clu>> \in written
               /\ <<"infomap_outputs", name>> \in written
               /\ pcl.aff_vect = LoadAff(infomap_outputs[name])
               /\ infomap_outputs[name] =
                      AffVectFile(SortedByFirst(clu_tup_of(infomap_outputs[clu])))

\* the second subject of a run at the last threshold of the sweep, its
\* affiliation vector loaded
C6_Witness ==
    /\ InPass
    /\ idx = 2
    /\ pcl.thr = threshold_list[Len(threshold_list)]
    /\ Len(pcl.aff_vect) = Len(orig_dist_censored_zmat)

\* C7: for every subject and threshold the matrix run_pc_steps re-derives from
\* the csv file has the retained edges and the weights of the matrix
\* run_infomap thresholded for that threshold.
C7_SameThresholdedMatrix ==
    InPass => pcl.pc_thresh_mat = pajek_files[pajek_name(subid, pcl.thr)]

\* the lines of a .clu file that are not comments, split into their fields
DataLines(clu_file) ==
    {Split(Strip(clu_file[k]), " ") :
        k \in {k \in 1..Len(clu_file) : "#" \notin Range(clu_file[k])}}

AfterCollect == pc \in {"pc", "avg", "label"}

\* C8: for every community detection output of the subject, in whatever order
\* its lines are, the reference file lists the parcels in ascending order and
\* the affiliation vector read back has, at position i, the label the output
\* gave to parcel i + 1.
C8_AffiliationRoundTrip ==
    AfterCollect =>
        \A t \in 1..Len(threshold_list) :
            LET clu  == clu_name(subid, threshold_list[t])
                name == vect_text(subid, threshold_list[t])
            IN  clu \in DOMAIN infomap_outputs =>
                    LET lines == DataLines(infomap_outputs[clu])
                        ref   == infomap_outputs[aff_ref_path(clu)]
                        aff   == LoadAff(infomap_outputs[name])
                    IN  /\ Len(aff) = Count(lines)
                        /\ \A k \in 1..Len(ref) : ParseInt(Split(Strip(ref[k]), " ")[1]) = k
                        /\ \A l \in lines : aff[ParseInt(l[1])] = ParseInt(l[2])

\* an output whose first line is not parcel 1 and whose labels are not all
\* the same, collected
C8_Witness ==
    /\ AfterCollect
    /\ \E t \in 1..Len(threshold_list) :
           LET clu == clu_name(subid, threshold_list[t])
           IN  /\ clu \in DOMAIN infomap_outputs
               /\ Split(Strip(infomap_outputs[clu][2]), " ")[1] # <<"1">>
               /\ Count({l[2] : l \in DataLines(infomap_outputs[clu])}) > 1
               /\ vect_text(subid, threshold_list[t]) \in DOMAIN infomap_outputs

\* a matrix with a NaN in it
HasNaN(m) == \E i, j \in 1..Len(m) : m[i][j].nan

\* dist_censored_zmat is the matrix of subid
MatrixOfSubid == <<"csv_outputs", zmat_name(subid)>> \in written

\* nothing of run_pc_steps or label_hubs is written for subject sub
NothingScored(sub) ==
    /\ \A t \in 1..Len(threshold_list) :
           /\ <<"pc_outputs", pc_perc_path(sub, threshold_list[t])>> \notin written
           /\ pc_perc_path(sub, threshold_list[t]) \notin DOMAIN pc_outputs
    /\ <<"final_avg_pc_percs", avg_pc_path(sub)>> \notin written
    /\ avg_pc_path(sub) \notin DOMAIN final_avg_pc_percs
    /\ <<"final_hub_indices", hub_indices_path(sub)>> \notin written
    /\ hub_indices_path(sub) \notin DOMAIN final_hub_indices

\* C9: if proportional thresholding of the subject's matrix yields a NaN at a
\* threshold, the run of the subject never gets past that threshold: community
\* detection is invoked neither for it nor for a later threshold, and no
\* percentile vector, averaged vector or hub index list is written for the
\* subject.
C9_NaNAbortsSubject ==
    (MatrixOfSubid /\ HasNaN(dist_censored_zmat)) =>
        \A t \in 1..Len(threshold_list) :
            HasNaN(threshold_proportional(dist_censored_zmat, threshold_list[t])) =>
                /\ pc \in {"infomap", "exited"}
                /\ ti <= t
                /\ \A u \in t..Len(threshold_list) :
                       <<subid, threshold_list[u]>> \notin Range(infomap_calls)
                /\ NothingScored(subid)

\* the second subject of a run, exited at the second threshold: community
\* detection ran for its first threshold, where thresholding kept no link
C9_Witness ==
    /\ pc = "exited"
    /\ idx = 2
    /\ HasNaN(threshold_proportional(dist_censored_zmat, threshold_list[ti]))
    /\ <<subid, threshold_list[1]>> \in Range(infomap_calls)
    /\ final_hub_indices # EmptyDir

\* the timeseries of entry k is missing, or the thresholding of its matrix
\* yields a NaN at a threshold of the sweep (only a constant row gives NaNs)
EntryFails(k) ==
    \/ EntryPath(k) \notin DOMAIN ts_files
    \/ /\ ts_files[EntryPath(k)].const # {}
       /\ \E t \in 1..Len(threshold_list) :
              HasNaN(threshold_proportional(
                         CensorProduct(make_zmat(ts_files[EntryPath(k)]), mult_mat),
                         threshold_list[t]))

\* nothing at all is written for subject sub
NothingWritten(sub) ==
    /\ NothingScored(sub)
    /\ <<"csv_outputs", zmat_name(sub)>> \notin written
    /\ \A t \in 1..Len(threshold_list) : <<sub, threshold_list[t]>> \notin Range(infomap_calls)

Stopped == pc \in {"exited", "crashed"}

C11_MatrixWhereProfilesRead ==
    (pc = "done" /\ ~nocleanup) =>
        \A k \in Labelled : zmat_readable(EntryId(k))

\* ---------------------------------------------------------------- C12
\* C12, as stated: no matrix with a NaN in it is passed on to the distance
\* censoring or persisted: neither main's distance censored matrix nor a csv
\* file of csv_outputs holds a NaN.
C12_NoNaNMatrixPersisted ==
    /\ dist_censored_zmat # NoMatrix => ~HasNaN(dist_censored_zmat)
    /\ \A name \in DOMAIN csv_outputs : ~HasNaN(csv_outputs[name])

\* ---------------------------------------------------------------- C13
\* the files of the directory that list parcel p
ListedBy(indices_dir, p) ==
    {name \in DOMAIN indices_dir :
        \E k \in 1..Len(indices_dir[name]) :
            /\ Strip(indices_dir[name][k]) # <<>>
            /\ ParseInt(Strip(indices_dir[name][k])) = p}

\* C13: the file Hub_Density_Map.py has written has 333 lines, and line p is
\* the number of the hub index files that list parcel p (0 if none does).
C13_DensityCounts ==
    hdm_pc = "done" =>
        /\ Len(value_vect_out) = 333
        /\ \A p \in 1..333 :
               ParseInt(Strip(value_vect_out[p])) = Count(ListedBy(final_hub_indices, p))

\* the counts of the hub sets {5, 10}, {5} and {}: 2 for parcel 5, 1 for
\* parcel 10
C13_Witness ==
    /\ hdm_pc = "done"
    /\ Listed(final_hub_indices[hub_indices_path(<<"s">>)]) = {5, 10}
    /\ Listed(final_hub_indices[hub_indices_path(<<"t">>)]) = {5}
    /\ hub_indices_of(final_hub_indices[hub_indices_path(<<"u">>)]) = <<>>
    /\ value_vect_out[5] = <<"2", "\n">>
    /\ value_vect_out[10] = <<"1", "\n">>
    /\ value_vect_out[333] = <<"0", "\n">>

\* ---------------------------------------------------------------- C14
\* C14: the matrix make_zmat returned for a timeseries without constant rows
\* has 1 in every diagonal entry, no infinite and no NaN entry, and its entry
\* (i, j) is its entry (j, i).
C14_DiagonalOneSymmetric ==
    (ztrans_mat # NoMatrix /\ preprocd_ts.const = {}) =>
        \A i, j \in 1..Len(ztrans_mat) :
            /\ ztrans_mat[i][i] = F(OneTicks)
            /\ ztrans_mat[i][j] = ztrans_mat[j][i]
            /\ ~ztrans_mat[i][j].nan
            /\ ztrans_mat[i][j].v \notin {Infinity, -Infinity}

\* make_zmat has returned the matrix of a timeseries without constant rows
\* that has positive and negative correlations
C14_Witness ==
    /\ ztrans_mat # NoMatrix
    /\ preprocd_ts.const = {}
    /\ Len(ztrans_mat) = preprocd_ts.n
    /\ \E i, j \in 1..Len(ztrans_mat) : i < j /\ ztrans_mat[i][j].v > 0
    /\ \E i, j \in 1..Len(ztrans_mat) : i > j /\ ztrans_mat[i][j].v < 0

\* ---------------------------------------------------------------- C15
RECURSIVE SumOthers(_, _, _, _)
\* the sum of the cells of row for the first k parcels of net, parcel hi left
\* out
SumOthers(row, net, hi, k) ==
    IF k = 0 THEN 0
    ELSE (IF net[k] + 1 = hi THEN 0 ELSE row[net[k] + 1].v) + SumOthers(row, net, hi, k - 1)

\* the parcels of net other than parcel hi
Others(net, hi) == {k \in 1..Len(net) : net[k] + 1 # hi}

\* C15: every profile file written has one profile per hub of the subject,
\* each of 13 values, and the value for a network is the mean (to four
\* decimals) of the hub's row over all the parcels of the network but the hub
\* itself.
C15_ProfileMeans ==
    \A sub \in sub_done :
        LET file == final_conn_profiles[cp_outfile_path(sub)]
            csv  == final_csv_outputs[zmat_name(sub)]
            hubs == final_hub_indices[hub_indices_path(sub)]
        IN  /\ Len(file) = Len(hubs)
            /\ \A k \in 1..Len(file) :
                   LET hi == ParseInt(Strip(hubs[k]))
                   IN  /\ Len(file[k].conns) = 13
                       /\ \A n \in 1..13 :
                              file[k].conns[n] =
                                  F(RoundDiv(SumOthers(csv[hi], networks[n], hi,
                                                       Len(networks[n])),
                                             Count(Others(networks[n], hi)) * 100))

\* the profiles of a subject are written for hub 89, whose row has 1.000000
\* at parcel 12 too: a parcel of the hub's network that is before the hub in
\* the network's list
C15_Witness ==
    /\ <<"s">> \in sub_done
    /\ \E k \in 1..Len(final_hub_indices[hub_indices_path(<<"s">>)]) :
           ParseInt(Strip(final_hub_indices[hub_indices_path(<<"s">>)][k])) = 89
    /\ final_csv_outputs[zmat_name(<<"s">>)][89][12] = F(1000000)
    /\ Len(final_conn_profiles[cp_outfile_path(<<"s">>)]) >= 1

\* ---------------------------------------------------------------- C16
\* the artifacts that Identify_Hubs.py names after subject sub
ArtifactsOf(sub) ==
    {<<"csv_outputs", zmat_name(sub)>>,
     <<"final_avg_pc_percs", avg_pc_path(sub)>>,
     <<"final_hub_indices", hub_indices_path(sub)>>,
     <<"final_hubs_dlabels", dlabel_path(sub)>>} \cup
    UNION {{<<"pajek_files", pajek_name(sub, threshold_list[t])>>,
            <<"infomap_outputs", clu_name(sub, threshold_list[t])>>,
            <<"infomap_outputs", aff_ref_path(clu_name(sub, threshold_list[t]))>>,
            <<"infomap_outputs", vect_text(sub, threshold_list[t])>>,
            <<"pc_outputs", pc_perc_path(sub, threshold_list[t])>>} :
           t \in 1..Len(threshold_list)}

\* C16, as stated: while the entries of the manifest are processed, every
\* artifact that the run has written for a subject other than the one being
\* processed is still in its directory.
C16_OtherSubjectsKept ==
    pc # "done" =>
        \A k \in 1..Len(input_data) :
            EntryId(k) # subid =>
                \A w \in ArtifactsOf(EntryId(k)) \cap written :
                    w[2] \in DOMAIN DirFiles(w[1])

\* ---------------------------------------------------------------- C17
\* the working directories and the final directories of out_subdirs
WorkingDirs == {"pajek_files", "infomap_outputs", "pc_outputs", "csv_outputs"}

FinalDirs == out_subdirs \ WorkingDirs

\* C17, as stated: the step that ends a run with cleanup, whatever the path
\* of the output directory, leaves no working directory and no file of one,
\* and keeps the final directories and their files; the step that ends a run
\* with -nocleanup removes nothing.
C17_CleanupRemovesWorkingDirs ==
    [][pc' = "done" =>
          IF nocleanup'
          THEN UNCHANGED files
          ELSE /\ dirs' \cap WorkingDirs = {}
               /\ csv_outputs' = EmptyDir
               /\ pajek_files' = EmptyDir
               /\ infomap_outputs' = EmptyDir
               /\ pc_outputs' = EmptyDir
               /\ dirs \cap FinalDirs \subseteq dirs'
               /\ UNCHANGED <<final_avg_pc_percs, final_hub_indices, final_hubs_dlabels>>]_vars

\* ---------------------------------------------------------------- C18
\* the fields of a line that whitespace delimits (str.split() without an
\* argument): the runs of characters between runs of spaces and tabs
WhitespaceFields(line) ==
    SelectSeq(Split([k \in 1..Len(line) |-> IF line[k] \in Whitespace THEN " " ELSE line[k]],
                    " "),
              LAMBDA field : field # <<>>)

\* C18, as stated: when main has taken up a manifest line made of a subject
\* ID and a path with whitespace between them, its subject ID is the ID of
\* the line, and the timeseries at the path of the line, if there is one of
\* the mask's size, is loaded and its matrix saved.
C18_WhitespaceDelimitedLine ==
    (pc \notin {"entry", "done"} /\ Len(WhitespaceFields(input_data[idx])) = 2) =>
        LET fields == WhitespaceFields(input_data[idx])
        IN  /\ subid = fields[1]
            /\ (/\ fields[2][1] \in DOMAIN ts_files
                /\ ts_files[fields[2][1]].n = Len(mult_mat)) =>
                   <<"csv_outputs", zmat_name(fields[1])>> \in written

\* ---------------------------------------------------------------- C19
\* the number of the elements of S that are at most x
RankIn(S, x) == Count({h \in S : h <= x})

C20_NaNOnlyWithoutEdges ==
    InPass =>
        \A i \in 1..Len(pcl.PC_wnans) :
            pcl.PC_wnans[i].kind = "nan" => Degree(pcl.pc_thresh_mat, i) = 0

\* the parcels of subject sub that are NaN in all 12 per-threshold files
AlwaysNaN(sub) ==
    {i \in 1..Len(pc_outputs[pc_perc_path(sub, threshold_list[1])]) :
        Valid(PersistedColumn(sub, i)) = {}}

\* label_hubs has written the hub index file of subid from the averaged file
\* that run_pc_steps made of the 12 per-threshold files that are still there
HubsOfAverage ==
    /\ pc = "entry"
    /\ hub_indices_path(subid) \in DOMAIN final_hub_indices
    /\ avg_pc_path(subid) \in DOMAIN final_avg_pc_percs
    /\ \A t \in 1..Len(threshold_list) :
           pc_perc_path(subid, threshold_list[t]) \in DOMAIN pc_outputs

\* C21: for a subject with at least 2 parcels, a parcel that is NaN at all 12
\* thresholds, and so has 0 in the averaged file, is not in the hub index
\* file label_hubs writes, whatever the scores of the other parcels and
\* however many parcels have the score 0.
C21_ExcludedNeverHub ==
    HubsOfAverage =>
        LET avg    == final_avg_pc_percs[avg_pc_path(subid)]
            listed == Listed(final_hub_indices[hub_indices_path(subid)])
        IN  Len(avg) >= 2 =>
                \A i \in AlwaysNaN(subid) : avg[i].num = 0 /\ i \notin listed

\* a hub index file that lists a parcel of a subject of which two or more
\* parcels are NaN at all 12 thresholds and have 0 in the averaged file
C21_Witness ==
    /\ HubsOfAverage
    /\ Len(final_avg_pc_percs[avg_pc_path(subid)]) >= 2
    /\ Count(AlwaysNaN(subid)) >= 2
    /\ \A i \in AlwaysNaN(subid) : final_avg_pc_percs[avg_pc_path(subid)][i].num = 0
    /\ Listed(final_hub_indices[hub_indices_path(subid)]) # {}

\* every parcel of the subject is NaN at all 12 thresholds: the averaged
\* file is all 0 and the hub index file is empty
C21_AllExcluded ==
    /\ HubsOfAverage
    /\ AlwaysNaN(subid) = 1..Len(final_avg_pc_percs[avg_pc_path(subid)])
    /\ Listed(final_hub_indices[hub_indices_path(subid)]) = {}

=============================================================================
